---------------------------- MODULE Spec2Model ----------------------------
(***************************************************************************)
(* A model of the marble physics core of Graph-game:                       *)
(*   src/public/physics.js   PhysicsEngine and Marble                      *)
(*   src/unnamed/part_000    the equation objects built by EquationParser  *)
(*   src/ui.js               the start position the marble is created at   *)
(*                                                                         *)
(* NUMBERS.  JavaScript numbers are IEEE 754 binary64 doubles, and the     *)
(* model computes with them bit for bit.  A number is a record             *)
(*   [s, e, h, l]   standing for (-1)^s * (h * 2^28 + l) * 2^e             *)
(* with the 53-bit mantissa h * 2^28 + l kept in two limbs (the integers   *)
(* of TLC have 32 bits).  A normal double has its mantissa in              *)
(* [2^52, 2^53) and e in EMin .. EMax; a subnormal one has e = EMin and a  *)
(* smaller mantissa; the zeros are the two records of mantissa 0, +0 and   *)
(* -0; e = ESpecial holds the infinities (h = 0) and NaN (h = 1).  Every   *)
(* operation rounds to nearest, ties to even, and gives the special        *)
(* values as IEEE 754 does (1 / -0 = -Infinity, Infinity - Infinity = NaN, *)
(* NaN compares false with everything, results beyond Number.MAX_VALUE     *)
(* overflow to an infinity, tiny ones go through the subnormals to zero).  *)
(* THROW is not a number: it marks a call that raised an exception.        *)
(*                                                                         *)
(* The operators `*`, `/`, `+`, `-`, Math.sqrt, Math.abs, Math.min and     *)
(* Math.max of the source are FMul, FDiv, FAdd, FSub, FSqrt, FAbs, FMin    *)
(* and FMax.  `a ** 2` is taken as the correctly rounded square of a,      *)
(* which is what the pow of V8 returns for the exponent 2.  JS holds the   *)
(* operations as one value; a definition that calculates takes it as its   *)
(* first parameter js and writes js.FAdd[a, b] for a + b.                  *)
(***************************************************************************)
EXTENDS Integers, Sequences, FiniteSets, TLC

W == 2 ^ 28
B == 2 ^ 14
EMin == 0 - 1074
EMax == 1023 - 52
ESpecial == EMax + 1

\* the element of a set of one element; { e(v) : v \in {a} } is e with
\* the value of a computed first, as after `const v = a`
TheOnly(S) == CHOOSE v \in S : TRUE

\* the double (-1)^s * (h * 2^28 + l) * 2^e
Double(s, e, h, l) == [s |-> s, e |-> e, h |-> h, l |-> l]

\* the records that stand for numbers
Num == [s : Int, e : Int, h : Int, l : Int]

Zero(s) == Double(s, EMin, 0, 0)
Inf(s) == Double(s, ESpecial, 0, 0)
PInf == Inf(0)
NInf == Inf(1)
NaN == Double(0, ESpecial, 1, 0)
THROW == Double(0, ESpecial + 1, 0, 0)

\* isNaN(a)
IsNaN(a) == a.e = ESpecial /\ a.h = 1

IsInf(a) == a.e = ESpecial /\ a.h = 0

\* isFinite(a)
IsFinite(a) == a.e <= EMax

IsZero(a) == a.e = EMin /\ a.h = 0 /\ a.l = 0

\* the number of bits of x, 0 <= x < 2^8
BitLen8(x) ==
    IF x < 16
    THEN (IF x < 4 THEN (IF x < 2 THEN x ELSE 2) ELSE (IF x < 8 THEN 3 ELSE 4))
    ELSE (IF x < 64 THEN (IF x < 32 THEN 5 ELSE 6) ELSE (IF x < 128 THEN 7 ELSE 8))

\* the number of bits of x, 0 <= x < 2^31
BitLen(x) ==
    IF x < 65536
    THEN (IF x < 256 THEN BitLen8(x) ELSE 8 + BitLen8(x \div 256))
    ELSE (IF x < 16777216 THEN 16 + BitLen8(x \div 65536)
          ELSE 24 + BitLen8(x \div 16777216))

\* the number of bits of h * 2^28 + l
BitLen2(h, l) == IF h > 0 THEN 28 + BitLen(h) ELSE BitLen(l)

\* -1, 0, 1 as h1 * 2^28 + l1 is below, equal to, above h2 * 2^28 + l2
Cmp2(h1, l1, h2, l2) ==
    IF h1 < h2 THEN 0 - 1 ELSE IF h1 > h2 THEN 1
    ELSE IF l1 < l2 THEN 0 - 1 ELSE IF l1 > l2 THEN 1 ELSE 0

\* l with its lowest bit set when lost: the mark of bits dropped below it
JamBit(l, lost) == IF lost /\ l % 2 = 0 THEN l + 1 ELSE l

\* a finite double, or the infinity it overflows to
Finite(s, e, h, l) == IF e > EMax THEN Inf(s) ELSE Double(s, e, h, l)

\* The operations on numbers are functions: a function is applied to the
\* values of its arguments, as an operator of JavaScript is.

\* the rounded mantissa h * 2^28 + m (m may carry into h), which may have
\* reached 2^53
RoundCarry[s \in Int, e \in Int, h \in Int, m \in Int] ==
    IF h + m \div W >= 2 ^ 25 THEN Finite(s, e + 1, 2 ^ 24, 0)
    ELSE Finite(s, e, h + m \div W, m % W)

\* round to nearest, ties to even: c is -1, 0, 1 as the dropped bits are
\* below, equal to, above one half of the last kept bit
RoundUp[s \in Int, e \in Int, qh \in Int, ql \in Int, c \in Int] ==
    RoundCarry[s, e, qh, IF c > 0 \/ (c = 0 /\ ql % 2 = 1) THEN ql + 1 ELSE ql]

\* drop the k < 28 low bits, p = 2^k
RoundLow[s \in Int, e \in Int, h \in Int, l \in Int, p \in Int] ==
    RoundUp[s, e, h \div p, (h % p) * (W \div p) + l \div p,
            Cmp2(0, l % p, 0, p \div 2)]

\* drop the 28 + j low bits, p = 2^j
RoundHigh[s \in Int, e \in Int, h \in Int, l \in Int, p \in Int] ==
    RoundUp[s, e, 0, h \div p,
            IF p = 1 THEN Cmp2(0, l, 0, W \div 2) ELSE Cmp2(h % p, l, p \div 2, 0)]

\* the mantissa shifted left by t bits
ShiftLeft[s \in Int, e \in Int, h \in Int, l \in Int, t \in Int] ==
    IF t = 0 THEN Finite(s, e, h, l)
    ELSE IF t >= 28 THEN Finite(s, e, l * 2 ^ (t - 28), 0)
    ELSE Finite(s, e, h * 2 ^ t + l \div 2 ^ (28 - t), (l % 2 ^ (28 - t)) * 2 ^ t)

\* h * 2^28 + l = 2^(n - 1), n its number of bits
IsPowerOfTwo(h, l, n) ==
    IF n > 28 THEN l = 0 /\ h = 2 ^ (n - 29) ELSE l = 2 ^ (n - 1)

\* the n-bit mantissa with its lowest k bits rounded away (k <= 0: shifted
\* left by -k bits)
RoundShift[s \in Int, e \in Int, h \in Int, l \in Int, n \in Int, k \in Int] ==
    IF k <= 0 THEN ShiftLeft[s, e + k, h, l, 0 - k]
    ELSE IF k > n THEN Zero(s)
    ELSE IF k = n
         THEN (IF IsPowerOfTwo(h, l, n) THEN Zero(s) ELSE Double(s, e + k, 0, 1))
    ELSE IF k < 28 THEN RoundLow[s, e + k, h, l, 2 ^ k]
    ELSE RoundHigh[s, e + k, h, l, 2 ^ (k - 28)]

RoundBits[s \in Int, e \in Int, h \in Int, l \in Int, n \in Int] ==
    IF n = 0 THEN Zero(s)
    ELSE RoundShift[s, e, h, l, n, IF n - 53 > EMin - e THEN n - 53 ELSE EMin - e]

\* The double nearest to (-1)^s * (h * 2^28 + l) * 2^e, ties to even
\* (h < 2^30, l < 2^28).  When bits below the value were dropped before the
\* call, the caller has set the lowest bit of l and left at least 55
\* significant bits.
RoundPack[s \in Int, e \in Int, h \in Int, l \in Int] ==
    RoundBits[s, e, h, l, BitLen2(h, l)]

\* a finite nonzero double with its mantissa shifted left by t bits, to 53
\* bits (the exponent of a subnormal goes below EMin)
NormalBy[a \in Num, t \in Int] ==
    IF t >= 28 THEN Double(a.s, a.e - t, a.l * 2 ^ (t - 28), 0)
    ELSE Double(a.s, a.e - t, a.h * 2 ^ t + a.l \div 2 ^ (28 - t),
                (a.l % 2 ^ (28 - t)) * 2 ^ t)

Normal[a \in Num] ==
    IF a.h >= 2 ^ 24 THEN a ELSE NormalBy[a, 53 - BitLen2(a.h, a.l)]

\* -1, 0, 1 as |a| is below, equal to, above |b| (neither is NaN)
CmpMag(a, b) ==
    IF a.e < b.e THEN 0 - 1 ELSE IF a.e > b.e THEN 1
    ELSE Cmp2(a.h, a.l, b.h, b.l)

\* -1, 0, 1 as a is below, equal to, above b (neither is NaN)
Cmp[a \in Num, b \in Num] ==
    IF IsZero(a) /\ IsZero(b) THEN 0
    ELSE IF a.s # b.s THEN (IF a.s = 1 THEN 0 - 1 ELSE 1)
    ELSE IF a.s = 0 THEN CmpMag(a, b) ELSE CmpMag(b, a)

\* a === b
FEq[a \in Num, b \in Num] == ~IsNaN(a) /\ ~IsNaN(b) /\ Cmp[a, b] = 0

\* a !== b
FNe[a \in Num, b \in Num] == ~FEq[a, b]

\* a < b
FLt[a \in Num, b \in Num] == ~IsNaN(a) /\ ~IsNaN(b) /\ Cmp[a, b] < 0

\* a > b
FGt[a \in Num, b \in Num] == FLt[b, a]

\* a <= b
FLe[a \in Num, b \in Num] == ~IsNaN(a) /\ ~IsNaN(b) /\ Cmp[a, b] <= 0

\* a >= b
FGe[a \in Num, b \in Num] == FLe[b, a]

\* -a
FNeg[a \in Num] == IF IsNaN(a) THEN NaN ELSE [a EXCEPT !.s = 1 - a.s]

\* Math.abs(a)
FAbs[a \in Num] == IF IsNaN(a) THEN NaN ELSE [a EXCEPT !.s = 0]

Jam(h, q, lost) == [h |-> h, l |-> JamBit(q, lost)]

\* h * 2^28 + l (not 0) shifted right by d bits, the lowest bit set when a
\* one was shifted out
ShiftJam[h \in Int, l \in Int, d \in Int] ==
    IF d = 0 THEN [h |-> h, l |-> l]
    ELSE IF d >= 56 THEN [h |-> 0, l |-> 1]
    ELSE IF d < 28
         THEN Jam(h \div 2 ^ d, (h % 2 ^ d) * (W \div 2 ^ d) + l \div 2 ^ d,
                  l % 2 ^ d # 0)
    ELSE Jam(0, h \div 2 ^ (d - 28), h % 2 ^ (d - 28) # 0 \/ l # 0)

\* the sum or difference h * 2^28 + l of the aligned mantissas, l with its
\* carry or borrow still in it
AddPacked[s \in Int, e \in Int, h \in Int, l \in Int] ==
    IF h = 0 /\ l = 0 THEN Zero(0)
    ELSE IF l < 0 THEN RoundPack[s, e, h - 1, l + W]
    ELSE RoundPack[s, e, h + l \div W, l % W]

AddAligned[same \in BOOLEAN, s \in Int, e \in Int, xh \in Int, xl \in Int,
           y \in [h : Int, l : Int]] ==
    IF same THEN AddPacked[s, e, xh + y.h, xl + y.l]
    ELSE AddPacked[s, e, xh - y.h, xl - y.l]

\* x + y for finite nonzero |x| >= |y|: both mantissas get three guard bits
AddOrdered[x \in Num, y \in Num] ==
    AddAligned[x.s = y.s, x.s, x.e - 3,
               x.h * 8 + x.l \div 2 ^ 25, (x.l % 2 ^ 25) * 8,
               ShiftJam[y.h * 8 + y.l \div 2 ^ 25, (y.l % 2 ^ 25) * 8, x.e - y.e]]

\* a + b
FAdd[a \in Num, b \in Num] ==
    IF IsNaN(a) \/ IsNaN(b) THEN NaN
    ELSE IF IsInf(a) THEN (IF IsInf(b) /\ a.s # b.s THEN NaN ELSE a)
    ELSE IF IsInf(b) THEN b
    ELSE IF IsZero(a) THEN (IF IsZero(b) THEN Zero(a.s * b.s) ELSE b)
    ELSE IF IsZero(b) THEN a
    ELSE IF CmpMag(a, b) < 0 THEN AddOrdered[b, a]
    ELSE AddOrdered[a, b]

\* a - b
FSub[a \in Num, b \in Num] == FAdd[a, FNeg[b]]

\* the digits of a 53-bit mantissa in base 2^14, from the lowest
Digits(x) == <<x.l % B, x.l \div B, x.h % B, x.h \div B>>

\* the column k of the columns c (digits base 2^14 not yet carried, from
\* the lowest) with the carry of the columns below it
Carried[c \in Seq(Int), k \in Int] ==
    IF k = 1 THEN c[1] ELSE c[k] + Carried[c, k - 1] \div B

\* the columns of the 106-bit product of the mantissas with the digits a
\* and b
MulColumns[a \in Seq(Int), b \in Seq(Int)] ==
    <<a[1] * b[1],
      a[1] * b[2] + a[2] * b[1],
      a[1] * b[3] + a[2] * b[2] + a[3] * b[1],
      a[1] * b[4] + a[2] * b[3] + a[3] * b[2] + a[4] * b[1],
      a[2] * b[4] + a[3] * b[3] + a[4] * b[2],
      a[3] * b[4] + a[4] * b[3],
      a[4] * b[4]>>

\* the top 56 bits of the product from its carried columns t4, t5, t6 and
\* the column c7, the lowest bit set when a one lies below them
MulTop[s \in Int, e \in Int, lost \in BOOLEAN, t4 \in Int, t5 \in Int, t6 \in Int,
       c7 \in Int] ==
    RoundPack[s, e, (t6 % B) \div 256 + (c7 + t6 \div B) * 64,
              JamBit((t4 % B) \div 256 + (t5 % B) * 64 + (t6 % 256) * 2 ^ 20,
                     lost \/ t4 % 256 # 0)]

\* the product from its columns c
MulPack[s \in Int, e \in Int, c \in Seq(Int)] ==
    MulTop[s, e,
           c[1] % B # 0 \/ Carried[c, 2] % B # 0 \/ Carried[c, 3] % B # 0,
           Carried[c, 4], Carried[c, 5], Carried[c, 6], c[7]]

MulNormal[s \in Int, x \in Num, y \in Num] ==
    MulPack[s, x.e + y.e + 50, MulColumns[Digits(x), Digits(y)]]

SignOf(a, b) == IF a.s = b.s THEN 0 ELSE 1

\* a * b
FMul[a \in Num, b \in Num] ==
    IF IsNaN(a) \/ IsNaN(b) THEN NaN
    ELSE IF IsInf(a) \/ IsInf(b)
         THEN (IF IsZero(a) \/ IsZero(b) THEN NaN ELSE Inf(SignOf(a, b)))
    ELSE IF IsZero(a) \/ IsZero(b) THEN Zero(SignOf(a, b))
    ELSE MulNormal[SignOf(a, b), Normal[a], Normal[b]]

\* a digit d of the quotient with the remainder h * 2^28 + l left
DivFixed(d, h, l) ==
    IF l < 0 THEN [d |-> d, h |-> h - 1, l |-> l + W]
    ELSE IF l >= W THEN [d |-> d, h |-> h + 1, l |-> l - W]
    ELSE [d |-> d, h |-> h, l |-> l]

\* the digit t.d made exact: the remainder brought into [0, y)
DivFix[y \in Num, t \in [d : Int, neg : BOOLEAN, h : Int, l : Int]] ==
    IF t.neg THEN DivFixed(t.d - 1, t.h + y.h - W, t.l + y.l)
    ELSE IF Cmp2(t.h, t.l, y.h, y.l) >= 0 THEN DivFixed(t.d + 1, t.h - y.h, t.l - y.l)
    ELSE [d |-> t.d, h |-> t.h, l |-> t.l]

\* the columns of r * 2^14 - d * y, r and y given by their digits
DivColumns[r \in Seq(Int), y \in Seq(Int), d \in Int] ==
    <<0 - d * y[1], r[1] - d * y[2], r[2] - d * y[3], r[3] - d * y[4], r[4]>>

\* r * 2^14 - d * y from its carried columns t1 .. t4 and the column c5
DivTrial[d \in Int, t1 \in Int, t2 \in Int, t3 \in Int, t4 \in Int, c5 \in Int] ==
    [d |-> d, neg |-> c5 + t4 \div B < 0,
     h |-> (t4 % B) * B + (t3 % B), l |-> (t2 % B) * B + (t1 % B)]

\* r * 2^14 - d * y from its columns c
DivTry[d \in Int, c \in Seq(Int)] ==
    DivTrial[d, c[1], Carried[c, 2], Carried[c, 3], Carried[c, 4], c[5]]

\* the digit of DivStep from its estimate d
DivDigit[y \in Num, rh \in Int, rl \in Int, d \in Int] ==
    DivFix[y, DivTry[d, DivColumns[<<rl % B, rl \div B, rh % B, rh \div B>>,
                                   Digits(y), d]]]

\* one digit (base 2^14) of the quotient r / y, r = rh * 2^28 + rl < y, with
\* the remainder left; the digit is first estimated from the leading 16 bits
DivStep[y \in Num, rh \in Int, rl \in Int] ==
    DivDigit[y, rh, rl, ((rh \div 512) * B) \div (y.h \div 512)]

\* the digits q of the quotient, the digit t.d after them and the
\* remainder of t
DivSoFar(q, t) == [q |-> q, d |-> t.d, h |-> t.h, l |-> t.l]

\* one more digit of the quotient
DivNext[y \in Num, t \in [q : Int, d : Int, h : Int, l : Int]] ==
    DivSoFar(t.q * B + t.d, DivStep[y, t.h, t.l])

\* the quotient from its digits t.q, the digits t.d and u.d below them, and
\* the remainder of u
DivPack[s \in Int, e \in Int, t \in [q : Int, d : Int, h : Int, l : Int],
        u \in [d : Int, h : Int, l : Int]] ==
    RoundPack[s, e, t.q, JamBit(t.d * B + u.d, u.h # 0 \/ u.l # 0)]

\* the quotient once the integer bit and three digits are known
DivLast[s \in Int, e \in Int, y \in Num, t \in [q : Int, d : Int, h : Int, l : Int]] ==
    DivPack[s, e, t, DivStep[y, t.h, t.l]]

\* x / y for normal mantissas from the integer bit q0 and the remainder
\* rh * 2^28 + rl: four digits base 2^14 follow
DivDigits[s \in Int, e \in Int, y \in Num, q0 \in Int, rh \in Int, rl \in Int] ==
    DivLast[s, e, y, DivNext[y, DivNext[y, DivSoFar(q0, DivStep[y, rh, rl])]]]

\* x / y for normal mantissas: the integer bit, then the digits
DivNormal[s \in Int, x \in Num, y \in Num] ==
    IF Cmp2(x.h, x.l, y.h, y.l) >= 0
    THEN DivDigits[s, x.e - y.e - 56, y, 1,
                   DivFixed(0, x.h - y.h, x.l - y.l).h,
                   DivFixed(0, x.h - y.h, x.l - y.l).l]
    ELSE DivDigits[s, x.e - y.e - 56, y, 0, x.h, x.l]

\* a / b
FDiv[a \in Num, b \in Num] ==
    IF IsNaN(a) \/ IsNaN(b) THEN NaN
    ELSE IF IsInf(a) THEN (IF IsInf(b) THEN NaN ELSE Inf(SignOf(a, b)))
    ELSE IF IsInf(b) THEN Zero(SignOf(a, b))
    ELSE IF IsZero(b) THEN (IF IsZero(a) THEN NaN ELSE Inf(SignOf(a, b)))
    ELSE IF IsZero(a) THEN Zero(SignOf(a, b))
    ELSE DivNormal[SignOf(a, b), Normal[a], Normal[b]]

\* the integer square root of n by Newton's iteration from s >= sqrt(n)
NewtonRoot[n \in Int, s \in Int, t \in Int] ==
    IF t >= s THEN s ELSE NewtonRoot[n, t, (t + n \div t) \div 2]

ISqrt(n) == NewtonRoot[n, B, (B + n \div B) \div 2]

\* one more digit base 4 of the quotient by d, after the digits t.q with
\* the remainder t.r < d
Div4Next(d, t) == [q |-> 4 * t.q + (4 * t.r) \div d, r |-> (4 * t.r) % d]

\* i >= 1 more digits base 4 of the quotient after t, the first half of
\* them first: [q, r]
Div4[d \in Int, t \in [q : Int, r : Int], i \in Int] ==
    IF i = 1 THEN Div4Next(d, t)
    ELSE Div4[d, Div4[d, t, i \div 2], i - i \div 2]

\* the root h * 2^28 + l, lost when its square is below the operand
SqrtDone(e, h, l, lost) == RoundPack[0, e, h, JamBit(l, lost)]

\* the root is one less than s1 * 2^28 + q; the remainder of that is
\* 2 * root + 1 - (dh * 2^28 + dl)
SqrtLess[e \in Int, s1 \in Int, q \in Int, dh \in Int, dl \in Int] ==
    SqrtDone(e, IF q % W = 0 THEN s1 + q \div W - 1 ELSE s1 + q \div W,
                IF q % W = 0 THEN W - 1 ELSE (q % W) - 1,
             Cmp2(dh, dl, 2 * s1 + (2 * q - 1) \div W, (2 * q - 1) % W) # 0)

\* q * q = sh * 2^28 + sl against the remainder u * 2^28
SqrtI[e \in Int, s1 \in Int, q \in Int, u \in Int, sh \in Int, sl \in Int] ==
    IF u < sh \/ (u = sh /\ sl > 0) THEN SqrtLess[e, s1, q, sh - u, sl]
    ELSE SqrtDone(e, s1 + q \div W, q % W, ~(u = sh /\ sl = 0))

\* q = q1 * 2^14 + q0 squared, against the remainder u * 2^28
SqrtG[e \in Int, s1 \in Int, q \in Int, u \in Int, q1 \in Int, q0 \in Int] ==
    SqrtI[e, s1, q, u,
          q1 * q1 + (2 * q1 * q0) \div B
              + (((2 * q1 * q0) % B) * B + q0 * q0) \div W,
          (((2 * q1 * q0) % B) * B + q0 * q0) % W]

\* the root from its high 28 bits s1 and the low 28 bits t.q, t.r being
\* the remainder of their division
SqrtF[e \in Int, s1 \in Int, t \in [q : Int, r : Int]] ==
    SqrtG[e, s1, t.q, t.r, t.q \div B, t.q % B]

\* the low 28 bits of the root from the high 28 bits s1 and their remainder
SqrtE[e \in Int, s1 \in Int, r1 \in Int] ==
    IF r1 >= 2 * s1 THEN SqrtF[e, s1, [q |-> W, r |-> 0]]
    ELSE SqrtF[e, s1, Div4[2 * s1, [q |-> 0, r |-> r1], 14]]

SqrtD[e \in Int, s1 \in Int, r1 \in Int] ==
    IF r1 < 0 THEN SqrtE[e, s1 - 1, r1 + 2 * s1 - 1] ELSE SqrtE[e, s1, r1]

\* the high 28 bits of the root from the high 14 bits s0, the next digit
\* estimated by q with u left
SqrtC[e \in Int, a0 \in Int, s0 \in Int, q \in Int, u \in Int] ==
    SqrtD[e, s0 * B + q, u * B + a0 - q * q]

SqrtB[e \in Int, n2 \in Int, s0 \in Int, r0 \in Int] ==
    SqrtC[e, n2 % B, s0, (r0 * B + n2 \div B) \div (2 * s0),
          (r0 * B + n2 \div B) % (2 * s0)]

SqrtA[e \in Int, n3 \in Int, n2 \in Int, s0 \in Int] ==
    SqrtB[e, n2, s0, n3 - s0 * s0]

\* the square root of (n3 * 2^28 + n2) * 2^(e + 56), e even, 2^26 <= n3 < 2^28
SqrtEven[e \in Int, n3 \in Int, n2 \in Int] ==
    SqrtA[(e - 58) \div 2, n3, n2, ISqrt(n3)]

SqrtNormal[x \in Num] ==
    IF x.e % 2 = 0
    THEN SqrtEven[x.e, x.h * 4 + x.l \div 2 ^ 26, (x.l % 2 ^ 26) * 4]
    ELSE SqrtEven[x.e - 1, x.h * 8 + x.l \div 2 ^ 25, (x.l % 2 ^ 25) * 8]

\* Math.sqrt(a)
FSqrt[a \in Num] ==
    IF IsNaN(a) THEN NaN
    ELSE IF IsZero(a) THEN a
    ELSE IF a.s = 1 THEN NaN
    ELSE IF IsInf(a) THEN PInf
    ELSE SqrtNormal[Normal[a]]

\* the integer i as a number
IntToF[i \in Int] ==
    IF i < 0 THEN RoundPack[1, 0, (0 - i) \div W, (0 - i) % W]
    ELSE RoundPack[0, 0, i \div W, i % W]

\* the decimal literal n / 10000
Lit[n \in Int] == FDiv[IntToF[n], IntToF[10000]]

\* Math.min(a, b)
FMin[a \in Num, b \in Num] ==
    IF IsNaN(a) \/ IsNaN(b) THEN NaN
    ELSE IF IsZero(a) /\ IsZero(b) THEN Zero(IF a.s = 1 \/ b.s = 1 THEN 1 ELSE 0)
    ELSE IF Cmp[a, b] <= 0 THEN a ELSE b

\* Math.max(a, b)
FMax[a \in Num, b \in Num] ==
    IF IsNaN(a) \/ IsNaN(b) THEN NaN
    ELSE IF IsZero(a) /\ IsZero(b) THEN Zero(IF a.s = 0 \/ b.s = 0 THEN 0 ELSE 1)
    ELSE IF Cmp[a, b] >= 0 THEN a ELSE b

\* a ** 2, and a * a
FSq[a \in Num] == FMul[a, a]

\* Math.sqrt(dx ** 2 + dy ** 2), and Math.sqrt(dx * dx + dy * dy)
Dist[dx \in Num, dy \in Num] == FSqrt[FAdd[FSq[dx], FSq[dy]]]


\* The operations above as one value.  A definition that calculates takes
\* it as its first parameter js and applies its fields: js.FAdd[a, b] is
\* a + b.
JS ==
    [FAdd |-> FAdd, FSub |-> FSub, FMul |-> FMul, FDiv |-> FDiv, FSqrt |-> FSqrt,
     FNeg |-> FNeg, FAbs |-> FAbs, FLt |-> FLt, FLe |-> FLe, FGt |-> FGt,
     FGe |-> FGe, FEq |-> FEq, FNe |-> FNe, FMin |-> FMin, FMax |-> FMax,
     FSq |-> FSq, Dist |-> Dist, IntToF |-> IntToF, Lit |-> Lit]
-----------------------------------------------------------------------------
(***************************************************************************)
(* EQUATIONS.  An equation object is a record                              *)
(*   type   the tag physics.js dispatches on                               *)
(*   fn     the compiled expression (one of the expressions below), or     *)
(*          the name of a hand-built object: physics.js takes any object   *)
(*          with a type and the methods evaluate / getPoints               *)
(*   op, value   the condition of a piecewise equation                     *)
(* The expressions, as the strings EquationParser.parseEquation is given   *)
(* (for explicit_x with x and y exchanged: "x = 0.5 * y", ...):            *)
(*   "zero"    y = 0 * x                                                   *)
(*   "half"    y = 0.5 * x                                                 *)
(*   "square"  y = x * x                                                   *)
(*   "recip"   y = 1 / x                                                   *)
(*   "steep"   y = 1000...000 * (200 * (x + 10)), the first factor being   *)
(*             the digit 1 followed by 308 zeros                           *)
(*   "undef"   x = 0 / 0 * y                (explicit_x only:              *)
(*             parseExplicitY refuses an expression that is NaN at x = 0)  *)
(*   "axis"    y + 0 * x = 0                (implicit)                     *)
(*   "dot"     x * x + y * y = 0            (implicit)                     *)
(*   "empty"   x * x + y * y + 1 = 0        (implicit)                     *)
(* The hand-built objects:                                                 *)
(*   "raise"   evaluate and getPoints throw                                *)
(*   "nanpt"   getPoints returns one point with NaN coordinates            *)
(***************************************************************************)

\* the number literal of "steep", 1e308
SteepFactor == Double(0, 971, 18665272, 99338400)

\* compiled.evaluate({x: x}) for the one-variable expressions; mathjs
\* applies the JavaScript operators to its number arguments
Compiled(js, fn, x) ==
    CASE fn = "zero"   -> js.FMul[Zero(0), x]
      [] fn = "half"   -> js.FMul[js.Lit[5000], x]
      [] fn = "square" -> js.FMul[x, x]
      [] fn = "recip"  -> js.FDiv[js.IntToF[1], x]
      [] fn = "steep"  -> js.FMul[SteepFactor, js.FMul[js.IntToF[200], js.FAdd[x, js.IntToF[10]]]]
      [] fn = "undef"  -> js.FMul[js.FDiv[Zero(0), Zero(0)], x]
      [] OTHER         -> NaN

\* compiled.evaluate({x: x, y: y}) for the implicit expressions
\* (left) - (right)
Compiled2(js, fn, x, y) ==
    CASE fn = "axis"  -> js.FSub[js.FAdd[y, js.FMul[Zero(0), x]], Zero(0)]
      [] fn = "dot"   -> js.FSub[js.FAdd[js.FMul[x, x], js.FMul[y, y]], Zero(0)]
      [] fn = "empty" -> js.FSub[js.FAdd[js.FAdd[js.FMul[x, x], js.FMul[y, y]], js.IntToF[1]], Zero(0)]
      [] OTHER        -> NaN

\* the piecewise equation's checkCondition(x, condition)
CheckCondition(js, x, op, value) ==
    CASE op = ">"  -> js.FGt[x, value]
      [] op = "<"  -> js.FLt[x, value]
      [] op = ">=" -> js.FGe[x, value]
      [] op = "<=" -> js.FLe[x, value]
      [] op = "==" -> js.FLt[js.FAbs[js.FSub[x, value]], js.Lit[100]]
      [] OTHER     -> TRUE

\* equation.evaluate(x) of an explicit_y, explicit_x or piecewise equation:
\* a number, or THROW when the method throws
Evaluate(js, eq, x) ==
    IF eq.fn = "raise" THEN THROW
    ELSE IF eq.type = "piecewise"
         THEN (IF CheckCondition(js, x, eq.op, eq.value) THEN Compiled(js, eq.fn, x) ELSE NaN)
    ELSE Compiled(js, eq.fn, x)

Eq(type, fn) == [type |-> type, fn |-> fn, op |-> "", value |-> Zero(0)]

EqPiecewise(fn, op, value) == [type |-> "piecewise", fn |-> fn, op |-> op, value |-> value]

\* { x, y }
Pt(x, y) == [x |-> x, y |-> y]

RECURSIVE Flatten(_, _, _)
\* the concatenation lists[lo] \o ... \o lists[hi]
Flatten(lists, lo, hi) ==
    IF lo > hi THEN <<>>
    ELSE IF lo = hi THEN lists[lo]
    ELSE Flatten(lists, lo, (lo + hi) \div 2) \o Flatten(lists, (lo + hi) \div 2 + 1, hi)

\* the concatenation of all the lists, in order
FlattenAll(lists) == Flatten(lists, 1, Len(lists))

\* the implicit equation's evaluate(x, y)
Evaluate2(js, eq, x, y) == Compiled2(js, eq.fn, x, y)

\* !isNaN(v) && isFinite(v)
Usable(v) == ~IsNaN(v) /\ IsFinite(v)

RECURSIVE LeastOf(_, _, _, _)
\* Math.min folded over values[lo .. hi]
LeastOf(js, values, lo, hi) ==
    IF lo = hi THEN values[lo]
    ELSE js.FMin[LeastOf(js, values, lo, (lo + hi) \div 2),
              LeastOf(js, values, (lo + hi) \div 2 + 1, hi)]

\* Math.min(...values): the fold starts from Infinity
MinOf(js, values) ==
    IF Len(values) = 0 THEN PInf
    ELSE js.FMin[PInf, LeastOf(js, values, 1, Len(values))]

RECURSIVE GreatestOf(_, _, _, _)
\* Math.max folded over values[lo .. hi]
GreatestOf(js, values, lo, hi) ==
    IF lo = hi THEN values[lo]
    ELSE js.FMax[GreatestOf(js, values, lo, (lo + hi) \div 2),
              GreatestOf(js, values, (lo + hi) \div 2 + 1, hi)]

\* Math.max(...values): the fold starts from -Infinity
MaxOf(js, values) ==
    IF Len(values) = 0 THEN NInf
    ELSE js.FMax[NInf, GreatestOf(js, values, 1, Len(values))]

\* the test of hasZeroCrossing on the usable corner values
CrossingIn(js, values, tolerance) ==
    IF Len(values) < 2 THEN FALSE
    ELSE js.FLe[MinOf(js, values), tolerance] /\ js.FGe[MaxOf(js, values), js.FNeg[tolerance]]

\* hasZeroCrossing(f11, f12, f21, f22, tolerance)
HasZeroCrossing(js, f11, f12, f21, f22, tolerance) ==
    CrossingIn(js, SelectSeq(<<f11, f12, f21, f22>>, Usable), tolerance)

\* The loops of findZeroCrossing make the passes n = 6 * i + j, i the outer
\* index and j the inner one (both 0 .. steps = 5), in the order of n, and
\* return from the first pass whose value is within the tolerance.

\* the point (x, y) of pass n
PassPoint(js, x1, y1, xStep, yStep, n) ==
    Pt(js.FAdd[x1, js.FMul[js.IntToF[n \div 6], xStep]], js.FAdd[y1, js.FMul[js.IntToF[n % 6], yStep]])

\* Math.abs(value) <= tolerance at the point p
WithinTolerance(js, eq, p, tolerance) == js.FLe[js.FAbs[Evaluate2(js, eq, p.x, p.y)], tolerance]

\* pass n returns
PassReturns(js, eq, x1, y1, xStep, yStep, tolerance, n) ==
    WithinTolerance(js, eq, PassPoint(js, x1, y1, xStep, yStep, n), tolerance)

\* the first pass that returns
FirstReturn(js, eq, x1, y1, xStep, yStep, tolerance) ==
    CHOOSE n \in 0 .. 35 :
        /\ PassReturns(js, eq, x1, y1, xStep, yStep, tolerance, n)
        /\ \A m \in 0 .. n - 1 : ~PassReturns(js, eq, x1, y1, xStep, yStep, tolerance, m)

\* findZeroCrossing with xStep and yStep computed
ZeroCrossingFrom(js, eq, x1, y1, xStep, yStep, tolerance) ==
    IF \E n \in 0 .. 35 : PassReturns(js, eq, x1, y1, xStep, yStep, tolerance, n)
    THEN <<PassPoint(js, x1, y1, xStep, yStep,
                     FirstReturn(js, eq, x1, y1, xStep, yStep, tolerance))>>
    ELSE <<>>

\* findZeroCrossing(x1, x2, y1, y2, tolerance), steps = 5: the point as a
\* one-element list, or the empty list for null
FindZeroCrossing(js, eq, x1, x2, y1, y2, tolerance) ==
    ZeroCrossingFrom(js, eq, x1, y1, js.FDiv[js.FSub[x2, x1], js.IntToF[5]],
                     js.FDiv[js.FSub[y2, y1], js.IntToF[5]], tolerance)

\* the coordinates min + k * step, k = 0 .. resolution, of the cell corners
GridNodes(js, min, step, resolution) ==
    [k \in 1 .. resolution + 1 |-> js.FAdd[min, js.FMul[js.IntToF[k - 1], step]]] \o <<>>

\* evaluate at every cell corner: corner (k, l) at index k * (resolution + 1)
\* + l + 1
CornerValues(js, eq, xs, ys, resolution) ==
    [c \in 1 .. (resolution + 1) * (resolution + 1) |->
        Evaluate2(js, eq, xs[(c - 1) \div (resolution + 1) + 1],
                      ys[((c - 1) % (resolution + 1)) + 1])] \o <<>>

\* the body of the loops of getPoints for the cell (i, j), whose corner
\* (i, j) has index c: the point pushed, if any
CellPoints(js, eq, xs, ys, values, i, j, c, resolution, tolerance) ==
    IF HasZeroCrossing(js, values[c], values[c + 1],
                       values[c + resolution + 1], values[c + resolution + 2],
                       tolerance)
    THEN FindZeroCrossing(js, eq, xs[i + 1], xs[i + 2], ys[j + 1], ys[j + 2], tolerance)
    ELSE <<>>

\* the loops of getPoints over the cells, i outer and j inner
GridPoints(js, eq, xs, ys, values, resolution, tolerance) ==
    FlattenAll([n \in 1 .. resolution * resolution |->
                   CellPoints(js, eq, xs, ys, values, (n - 1) \div resolution,
                              (n - 1) % resolution,
                              ((n - 1) \div resolution) * (resolution + 1)
                                  + ((n - 1) % resolution) + 1,
                              resolution, tolerance)] \o <<>>)

\* getPoints over the corner coordinates xs and ys
GridOver(js, eq, xs, ys, resolution) ==
    TheOnly({ GridPoints(js, eq, xs, ys, values, resolution, js.Lit[1000]) :
              values \in {CornerValues(js, eq, xs, ys, resolution)} })

\* getPoints with xStep and yStep computed
MarchGrid(js, eq, xMin, yMin, xStep, yStep, resolution) ==
    TheOnly({ GridOver(js, eq, xs, ys, resolution) :
              xs \in {GridNodes(js, xMin, xStep, resolution)},
              ys \in {GridNodes(js, yMin, yStep, resolution)} })

\* equation.getPoints(xMin, xMax, yMin, yMax, resolution) of an implicit
\* equation: [threw, pts], the points in the order they are pushed
GetPoints(js, eq, xMin, xMax, yMin, yMax, resolution) ==
    IF eq.fn = "raise" THEN [threw |-> TRUE, pts |-> <<>>]
    ELSE IF eq.fn = "nanpt" THEN [threw |-> FALSE, pts |-> <<Pt(NaN, NaN)>>]
    ELSE [threw |-> FALSE,
          pts |-> MarchGrid(js, eq, xMin, yMin,
                            js.FDiv[js.FSub[xMax, xMin], js.IntToF[resolution]],
                            js.FDiv[js.FSub[yMax, yMin], js.IntToF[resolution]],
                            resolution)]

-----------------------------------------------------------------------------
(***************************************************************************)
(* PhysicsEngine                                                           *)
(***************************************************************************)
gravity(js) == js.FNeg[js.Lit[1500]]
friction(js) == js.Lit[9800]
bounceThreshold(js) == js.Lit[5000]
pathSnapStrength(js) == js.Lit[3000]
pathFollowSpeed(js) == js.Lit[1200]

\* new PhysicsEngine(): the object the methods below read their
\* configuration from (this.gravity, this.friction, this.pathFollowSpeed)
PhysicsNew(js) ==
    [gravity |-> gravity(js),
     friction |-> friction(js),
     bounceThreshold |-> bounceThreshold(js),
     pathSnapStrength |-> pathSnapStrength(js),
     pathFollowSpeed |-> pathFollowSpeed(js)]

Vec(x, y) == [x |-> x, y |-> y]

\* the dx = 0.01 of calculateDerivative and the dy = 0.01 of
\* calculateDerivativeX
derivativeStep(js) == js.Lit[100]

\* CentralDifference without the isNaN / isFinite test of line 48
CentralDifferenceUnchecked(js, y1, y2, dx) ==
    IF y1 = THROW \/ y2 = THROW THEN Zero(0)
    ELSE js.FDiv[js.FSub[y2, y1], dx]

\* the tail of calculateDerivative / calculateDerivativeX once the two
\* half-step evaluations are made: 0 from the catch block, 0 from the
\* isNaN / isFinite test, else the central difference
CentralDifference(js, y1, y2, dx) ==
    IF y1 = THROW \/ y2 = THROW THEN Zero(0)
    ELSE IF IsNaN(y1) \/ IsNaN(y2) \/ ~IsFinite(y1) \/ ~IsFinite(y2) THEN Zero(0)
    ELSE js.FDiv[js.FSub[y2, y1], dx]

\* calculateDerivative with dx given
DerivativeAt(js, equation, x, dx) ==
    CentralDifference(js, Evaluate(js, equation, js.FSub[x, js.FDiv[dx, js.IntToF[2]]]),
                      Evaluate(js, equation, js.FAdd[x, js.FDiv[dx, js.IntToF[2]]]),
                      dx)

\* calculateDerivative(equation, x, dx = 0.01)
calculateDerivative(js, equation, x) == DerivativeAt(js, equation, x, derivativeStep(js))

\* calculateDerivativeX(equation, y, dy = 0.01)
calculateDerivativeX(js, equation, y) == DerivativeAt(js, equation, y, derivativeStep(js))

\* { x: speed / magnitude, y: (speed * slope) / magnitude }
TangentOver(js, speed, slope, magnitude) ==
    Vec(js.FDiv[speed, magnitude], js.FDiv[js.FMul[speed, slope], magnitude])

\* the unit tangent (1, slope) / sqrt(1 + slope * slope) scaled by speed
Tangent(js, speed, slope) ==
    TheOnly({ TangentOver(js, speed, slope, magnitude) :
              magnitude \in {js.FSqrt[js.FAdd[js.IntToF[1], js.FMul[slope, slope]]]} })

\* { x: dx / magnitude, y: dy / magnitude }
DirectionOver(js, dx, dy, magnitude) == Vec(js.FDiv[dx, magnitude], js.FDiv[dy, magnitude])

\* The loop of calculateImplicitVelocity keeps the direction of the first
\* pass of least distance among the passes whose step (dx, dy) is not
\* (0, 0) (the update test is a strict <, starting from Infinity); the
\* model computes what each pass offers and takes that minimum pairwise.

\* one pass of the loop of calculateImplicitVelocity, at index i: the
\* distance it offers, Infinity when the pass cannot update
ImplicitPass(js, i, dx, dy, distance) ==
    IF js.FLt[distance, PInf] /\ (js.FNe[dx, Zero(0)] \/ js.FNe[dy, Zero(0)])
    THEN [index |-> i, distance |-> distance]
    ELSE [index |-> i, distance |-> PInf]

\* the passes i = 1 .. points.length - 1 (here i = 2 .. Len(points)), in
\* order
ImplicitPasses(js, points, x) ==
    [k \in 1 .. Len(points) - 1 |->
        ImplicitPass(js, k + 1, js.FSub[points[k + 1].x, points[k].x],
                     js.FSub[points[k + 1].y, points[k].y],
                     js.FAbs[js.FSub[points[k + 1].x, x]])] \o <<>>

\* of two passes, the later one only when strictly nearer
NearerPass(js, first, second) ==
    IF js.FLt[second.distance, first.distance] THEN second ELSE first

RECURSIVE FirstNearestPass(_, _, _, _)
\* the pass that made the last update among the passes lo .. hi
FirstNearestPass(js, passes, lo, hi) ==
    IF lo = hi THEN passes[lo]
    ELSE NearerPass(js, FirstNearestPass(js, passes, lo, (lo + hi) \div 2),
                    FirstNearestPass(js, passes, (lo + hi) \div 2 + 1, hi))

\* bestDirection for the step (dx, dy) of a pass
DirectionOf(js, dx, dy) ==
    TheOnly({ DirectionOver(js, dx, dy, magnitude) :
              magnitude \in {js.FSqrt[js.FAdd[js.FMul[dx, dx], js.FMul[dy, dy]]]} })

\* bestDirection as the pass at index i sets it
DirectionAt(js, points, i) ==
    TheOnly({ DirectionOf(js, d.x, d.y) :
              d \in {Vec(js.FSub[points[i].x, points[i - 1].x],
                         js.FSub[points[i].y, points[i - 1].y])} })

\* bestDirection after the loop: { x: 1, y: 0 } when no pass updated it
BestDirection(js, points, best) ==
    IF js.FLt[best.distance, PInf] THEN DirectionAt(js, points, best.index)
    ELSE Vec(js.IntToF[1], Zero(0))

\* the pass that made the last update among all the passes
LastUpdate(js, passes) == FirstNearestPass(js, passes, 1, Len(passes))

\* the loop of calculateImplicitVelocity over at least 2 points
ImplicitLoop(js, points, x) ==
    BestDirection(js, points, LastUpdate(js, ImplicitPasses(js, points, x)))

\* { x: speed * bestDirection.x, y: speed * bestDirection.y }
ScaledDirection(js, speed, bestDirection) ==
    Vec(js.FMul[speed, bestDirection.x], js.FMul[speed, bestDirection.y])

\* calculateImplicitVelocity once getPoints has returned (or thrown)
ImplicitVelocityFrom(js, got, x, speed) ==
    IF got.threw THEN [threw |-> TRUE, v |-> Vec(Zero(0), Zero(0))]
    ELSE IF Len(got.pts) < 2 THEN [threw |-> FALSE, v |-> Vec(speed, Zero(0))]
    ELSE [threw |-> FALSE,
          v |-> ScaledDirection(js, speed,
                    ImplicitLoop(js, got.pts, x))]

\* calculateImplicitVelocity(equation, x, speed): [threw, v]
calculateImplicitVelocity(js, equation, x, speed) ==
    ImplicitVelocityFrom(js, GetPoints(js, equation, js.FSub[x, js.Lit[1000]], js.FAdd[x, js.Lit[1000]],
                                   js.IntToF[-10], js.IntToF[10], 20),
                         x, speed)

\* InverseSlope without the test dxdy !== 0
InverseSlopeUnguarded(js, dxdy) == js.FDiv[js.IntToF[1], dxdy]

\* dydx = dxdy !== 0 ? 1 / dxdy : 0
InverseSlope(js, dxdy) == IF js.FNe[dxdy, Zero(0)] THEN js.FDiv[js.IntToF[1], dxdy] ELSE Zero(0)

\* the explicit_x arm of calculatePathVelocity once y is evaluated; the
\* catch block returns { x: 0, y: 0 }
ExplicitXVelocity(js, equation, y, speed) ==
    IF y = THROW THEN Vec(Zero(0), Zero(0))
    ELSE TheOnly({ Tangent(js, speed, InverseSlope(js, dxdy)) :
                   dxdy \in {calculateDerivativeX(js, equation, y)} })

\* the implicit arm of calculatePathVelocity: the catch block returns
\* { x: 0, y: 0 }
ImplicitVelocityOrZero(r) == IF r.threw THEN Vec(Zero(0), Zero(0)) ELSE r.v

\* calculatePathVelocity(equation, x, speed = null)
calculatePathVelocity(js, physics, equation, x) ==
    CASE equation.type \in {"explicit_y", "piecewise"} ->
           TheOnly({ Tangent(js, physics.pathFollowSpeed, slope) :
                     slope \in {calculateDerivative(js, equation, x)} })
      [] equation.type = "explicit_x" ->
           ExplicitXVelocity(js, equation, Evaluate(js, equation, x), physics.pathFollowSpeed)
      [] equation.type = "implicit" ->
           ImplicitVelocityOrZero(
               calculateImplicitVelocity(js, equation, x, physics.pathFollowSpeed))
      [] OTHER -> Vec(physics.pathFollowSpeed, Zero(0))

\* What findClosestPointOnPath returns: a point with its distance
\* (tag "point"), null, or nothing because an exception left the call.
Point(x, y, distance) == [tag |-> "point", x |-> x, y |-> y, distance |-> distance]

NullPoint == [tag |-> "null", x |-> Zero(0), y |-> Zero(0), distance |-> Zero(0)]

ThrownPoint == [tag |-> "throw", x |-> Zero(0), y |-> Zero(0), distance |-> Zero(0)]

searchRadius(js) == js.IntToF[2]
scanStep(js) == js.Lit[500]

\* A call of findClosestPointOnPath as it stands: the marble and the
\* equation it was given, the locals closestX / closestY (closest) and
\* minDistance of its search, and the value it returns.  Each step of the
\* search below writes the fields its lines assign.
Search(marble, equation, closest, minDistance) ==
    [marble |-> marble, equation |-> equation, closest |-> closest,
     minDistance |-> minDistance, result |-> NullPoint]

\* what a scan loop holds after a pass: closestX (closestY) and minDistance
Scanned(closest, minDistance) == [closest |-> closest, minDistance |-> minDistance]

RECURSIVE ScanRun(_, _, _, _, _)
\* up to n passes more after the passes in first: the loop has ended when
\* first holds fewer than n passes
ScanMore(js, first, end, step, n) ==
    IF Len(first) < n THEN <<>>
    ELSE ScanRun(js, js.FAdd[first[n], step], end, step, n)

\* the passes in first, then up to n more
ScanJoin(js, first, end, step, n) == first \o ScanMore(js, first, end, step, n)

\* the coordinates the next passes of a loop
\* `for (...; x <= end; x += step)` visit from x on, in order: at most n
\* of them, n a power of 2, the first half of them first
ScanRun(js, x, end, step, n) ==
    IF n = 1 THEN (IF js.FLe[x, end] THEN <<x>> ELSE <<>>)
    ELSE ScanJoin(js, ScanRun(js, x, end, step, n \div 2), end, step, n \div 2)

RECURSIVE ScanCoords(_, _, _, _)
\* the passes in first, then all the passes left
ScanRest(js, first, end, step) ==
    IF Len(first) < 128 THEN first
    ELSE first \o ScanCoords(js, js.FAdd[first[128], step], end, step)

\* the coordinates a loop `for (x = start; x <= end; x += step)` visits, in
\* order, taken 128 passes at a time
ScanCoords(js, x, end, step) == ScanRest(js, ScanRun(js, x, end, step, 128), end, step)

\* The scan loops keep the first sample of least distance (the update test
\* is a strict <, starting from Infinity).  The model computes what each
\* pass offers and takes that minimum pairwise over halves of the passes,
\* the earlier pass winning ties.

\* one pass of a scan loop: the sample at coordinate coord has the value
\* value and lies at distance; it is offered when the value is usable and
\* the distance is below the Infinity the minimum starts from (a throw is
\* caught and the pass skipped)
ScanKeep(js, coord, value, distance, fallback) ==
    IF value # THROW /\ ~IsNaN(value) /\ IsFinite(value) /\ js.FLt[distance, PInf]
    THEN Scanned(coord, distance)
    ELSE Scanned(fallback, PInf)

\* of two scan results, the later one only when strictly nearer
Nearer(js, first, second) ==
    IF js.FLt[second.minDistance, first.minDistance] THEN second ELSE first

RECURSIVE FirstNearest(_, _, _, _, _)
\* what the scan holds after the passes lo .. hi
FirstNearest(js, offers, fallback, lo, hi) ==
    IF lo > hi THEN Scanned(fallback, PInf)
    ELSE IF lo = hi THEN offers[lo]
    ELSE Nearer(js, FirstNearest(js, offers, fallback, lo, (lo + hi) \div 2),
                FirstNearest(js, offers, fallback, (lo + hi) \div 2 + 1, hi))

\* what the scan holds after all its passes
NearestOffer(js, offers, fallback) == FirstNearest(js, offers, fallback, 1, Len(offers))

\* the pass of findClosestPointExplicitY at x, with y = equation.evaluate(x)
ScanAtX(js, marbleX, marbleY, x, y) ==
    ScanKeep(js, x, y, js.Dist[js.FSub[x, marbleX], js.FSub[y, marbleY]], marbleX)

\* the passes of the loop of findClosestPointExplicitY at the coordinates xs
ScanExplicitY(js, equation, marbleX, marbleY, xs) ==
    NearestOffer(js, [i \in 1 .. Len(xs) |->
                     ScanAtX(js, marbleX, marbleY, xs[i], Evaluate(js, equation, xs[i]))]
                     \o <<>>,
                 marbleX)

\* the return of findClosestPointExplicitY / X: the point, or null from
\* the catch block around the final evaluate
PointOrNull(x, y, value, distance) ==
    IF value = THROW THEN NullPoint ELSE Point(x, y, distance)

\* the tail of findClosestPointExplicitY once the scan is done
ExplicitYPoint(js, equation, found) ==
    PointOrNull(found.closest, Evaluate(js, equation, found.closest),
                Evaluate(js, equation, found.closest), found.minDistance)

\* the scan of findClosestPointExplicitY from startX to endX
ScanRangeY(js, equation, marbleX, marbleY, startX, endX) ==
    TheOnly({ ScanExplicitY(js, equation, marbleX, marbleY, xs) :
              xs \in {ScanCoords(js, startX, endX, scanStep(js))} })

\* findClosestPointExplicitY, lines 171-184: the loop assigns closestX and
\* minDistance
ScanLoopY(js, call, startX, endX) ==
    TheOnly({ [call EXCEPT !.closest = found.closest,
                           !.minDistance = found.minDistance] :
              found \in {ScanRangeY(js, call.equation, call.marble.position.x,
                                    call.marble.position.y, startX, endX)} })

\* ReturnExplicitY with the point found written into marble.position
ReturnExplicitYSnapping(js, call) ==
    TheOnly({ IF point.tag = "point"
              THEN [call EXCEPT !.result = point,
                                !.marble.position = Vec(point.x, point.y)]
              ELSE [call EXCEPT !.result = point] :
              point \in {ExplicitYPoint(js, call.equation,
                                        Scanned(call.closest, call.minDistance))} })

\* findClosestPointExplicitY, lines 186-195: the value returned
ReturnExplicitY(js, call) ==
    [call EXCEPT !.result = ExplicitYPoint(js, call.equation,
                                           Scanned(call.closest, call.minDistance))]

\* a call findClosestPointExplicitY(marble, equation, searchRadius):
\* closestX starts as marbleX and minDistance as Infinity (lines 164-165)
SearchExplicitY(js, marble, equation, radius) ==
    TheOnly({ ReturnExplicitY(js, 
                  ScanLoopY(js, Search(marble, equation, marble.position.x, PInf),
                            startX, endX)) :
              startX \in {js.FMax[js.IntToF[-10], js.FSub[marble.position.x, radius]]},
              endX \in {js.FMin[js.IntToF[10], js.FAdd[marble.position.x, radius]]} })

\* what findClosestPointExplicitY(marble, equation, searchRadius) returns
findClosestPointExplicitY(js, marble, equation, radius) ==
    SearchExplicitY(js, marble, equation, radius).result

\* the pass of findClosestPointExplicitX at y, with x = equation.evaluate(y)
ScanAtY(js, marbleX, marbleY, y, x) ==
    ScanKeep(js, y, x, js.Dist[js.FSub[x, marbleX], js.FSub[y, marbleY]], marbleY)

\* the passes of the loop of findClosestPointExplicitX at the coordinates ys
ScanExplicitX(js, equation, marbleX, marbleY, ys) ==
    NearestOffer(js, [i \in 1 .. Len(ys) |->
                     ScanAtY(js, marbleX, marbleY, ys[i], Evaluate(js, equation, ys[i]))]
                     \o <<>>,
                 marbleY)

\* the tail of findClosestPointExplicitX once the scan is done
ExplicitXPoint(js, equation, found) ==
    PointOrNull(Evaluate(js, equation, found.closest), found.closest,
                Evaluate(js, equation, found.closest), found.minDistance)

\* the scan of findClosestPointExplicitX from startY to endY
ScanRangeX(js, equation, marbleX, marbleY, startY, endY) ==
    TheOnly({ ScanExplicitX(js, equation, marbleX, marbleY, ys) :
              ys \in {ScanCoords(js, startY, endY, scanStep(js))} })

\* findClosestPointExplicitX, lines 209-222: the loop assigns closestY and
\* minDistance
ScanLoopX(js, call, startY, endY) ==
    TheOnly({ [call EXCEPT !.closest = found.closest,
                           !.minDistance = found.minDistance] :
              found \in {ScanRangeX(js, call.equation, call.marble.position.x,
                                    call.marble.position.y, startY, endY)} })

\* findClosestPointExplicitX, lines 224-233: the value returned
ReturnExplicitX(js, call) ==
    [call EXCEPT !.result = ExplicitXPoint(js, call.equation,
                                           Scanned(call.closest, call.minDistance))]

\* a call findClosestPointExplicitX(marble, equation, searchRadius):
\* closestY starts as marbleY and minDistance as Infinity (lines 202-203)
SearchExplicitX(js, marble, equation, radius) ==
    TheOnly({ ReturnExplicitX(js, 
                  ScanLoopX(js, Search(marble, equation, marble.position.y, PInf),
                            startY, endY)) :
              startY \in {js.FMax[js.IntToF[-10], js.FSub[marble.position.y, radius]]},
              endY \in {js.FMin[js.IntToF[10], js.FAdd[marble.position.y, radius]]} })

\* what findClosestPointExplicitX(marble, equation, searchRadius) returns
findClosestPointExplicitX(js, marble, equation, radius) ==
    SearchExplicitX(js, marble, equation, radius).result

\* findClosestPointImplicit, lines 256-261, one pass of the loop: point i
\* replaces the closest so far when its distance is less than minDistance
\* (never, when either of the two is NaN)
ClosestPass(js, best, distances, i) ==
    IF js.FLt[distances[i], best.distance]
    THEN [index |-> i, distance |-> distances[i]]
    ELSE best

RECURSIVE ClosestPasses(_, _, _, _, _)
\* the passes lo .. hi of the loop in order, from the closest so far
ClosestPasses(js, best, distances, lo, hi) ==
    IF lo > hi THEN best
    ELSE IF lo = hi THEN ClosestPass(js, best, distances, lo)
    ELSE TheOnly({ ClosestPasses(js, first, distances, (lo + hi) \div 2 + 1, hi) :
                   first \in {ClosestPasses(js, best, distances, lo, (lo + hi) \div 2)} })

\* findClosestPointImplicit, lines 249-262, over the points lo .. hi: the
\* index of closestPoint and minDistance, which start at point lo and its
\* distance (a NaN there is kept to the end)
ClosestIndex(js, distances, lo, hi) ==
    TheOnly({ ClosestPasses(js, first, distances, lo + 1, hi) :
              first \in {[index |-> lo, distance |-> distances[lo]]} })

\* the distances from the points to the marble, in order
PointDistances(js, points, marbleX, marbleY) ==
    [i \in 1 .. Len(points) |->
        js.Dist[js.FSub[points[i].x, marbleX], js.FSub[points[i].y, marbleY]]] \o <<>>

\* closestPoint and minDistance as a point with its distance
ClosestOf(points, distances, best) ==
    Point(points[best.index].x, points[best.index].y, best.distance)

\* closestPoint and minDistance as the loop of findClosestPointImplicit
\* leaves them over a non-empty list
ClosestAmong(js, points, distances) ==
    ClosestOf(points, distances, ClosestIndex(js, distances, 1, Len(points)))

\* lines 249-262 of findClosestPointImplicit: the locals closestPoint and
\* minDistance after the loop
ClosestLoop(js, call, points) ==
    TheOnly({ [call EXCEPT !.closest = Vec(found.x, found.y),
                           !.minDistance = found.distance] :
              found \in { ClosestAmong(js, points,
                              PointDistances(js, points, call.marble.position.x,
                                             call.marble.position.y)) } })

\* lines 264-268: the new object returned
ReturnImplicit(call) ==
    [call EXCEPT !.result = Point(call.closest.x, call.closest.y, call.minDistance)]

\* findClosestPointImplicit once getPoints has returned (or thrown), lines
\* 247-268: getPoints is called outside any try block, so its exception
\* leaves the function
ImplicitCallFrom(js, call, got) ==
    IF got.threw THEN [call EXCEPT !.result = ThrownPoint]
    ELSE IF Len(got.pts) = 0 THEN [call EXCEPT !.result = NullPoint]
    ELSE ReturnImplicit(ClosestLoop(js, call, got.pts))

\* a call findClosestPointImplicit(marble, equation, searchRadius), lines
\* 236-269: getPoints is asked for the points of the square around the
\* marble
SearchImplicit(js, marble, equation, radius) ==
    ImplicitCallFrom(js, 
        Search(marble, equation, Vec(Zero(0), Zero(0)), PInf),
        GetPoints(js, equation, js.FSub[marble.position.x, radius],
                  js.FAdd[marble.position.x, radius],
                  js.FSub[marble.position.y, radius],
                  js.FAdd[marble.position.y, radius], 50))

\* what findClosestPointImplicit(marble, equation, searchRadius) returns
findClosestPointImplicit(js, marble, equation, radius) ==
    SearchImplicit(js, marble, equation, radius).result

\* One call physics.findClosestPointOnPath(marble, equation) with
\* searchRadius = 2.0, lines 143-158: the marble and the equation as the
\* call leaves them and the value returned, in the field result
ClosestPointCall(js, marble, equation) ==
    CASE equation.type \in {"explicit_y", "piecewise"} ->
           SearchExplicitY(js, marble, equation, searchRadius(js))
      [] equation.type = "explicit_x" ->
           SearchExplicitX(js, marble, equation, searchRadius(js))
      [] equation.type = "implicit" ->
           SearchImplicit(js, marble, equation, searchRadius(js))
      [] OTHER -> Search(marble, equation, Zero(0), PInf)

\* what findClosestPointOnPath(marble, equation) returns
findClosestPointOnPath(js, marble, equation) == ClosestPointCall(js, marble, equation).result

\* the pass of the explicit_y / piecewise loop of samplePathPoints at x
\* with y = evaluate(x): the point pushed, if any
SampleAtX(x, y) ==
    IF y # THROW /\ ~IsNaN(y) /\ IsFinite(y) THEN <<Pt(x, y)>> ELSE <<>>

\* the explicit_y / piecewise loop of samplePathPoints, i = k - 1 = 0 .. numSamples
SampleExplicitY(js, equation, startX, step, numSamples) ==
    FlattenAll([k \in 1 .. numSamples + 1 |->
                   SampleAtX(js.FAdd[startX, js.FMul[js.IntToF[k - 1], step]],
                             Evaluate(js, equation,
                                      js.FAdd[startX, js.FMul[js.IntToF[k - 1], step]]))]
                   \o <<>>)

\* the pass of the explicit_x loop of samplePathPoints at y with
\* x = evaluate(y)
SampleAtY(js, y, x, startX, endX) ==
    IF x # THROW /\ ~IsNaN(x) /\ IsFinite(x) /\ js.FGe[x, startX] /\ js.FLe[x, endX]
    THEN <<Pt(x, y)>>
    ELSE <<>>

\* the explicit_x loop of samplePathPoints, i = k - 1 = 0 .. numSamples
SampleExplicitX(js, equation, startX, distance, yStep, numSamples) ==
    FlattenAll([k \in 1 .. numSamples + 1 |->
                   SampleAtY(js, js.FAdd[js.IntToF[-10], js.FMul[js.IntToF[k - 1], yStep]],
                             Evaluate(js, equation,
                                      js.FAdd[js.IntToF[-10], js.FMul[js.IntToF[k - 1], yStep]]),
                             startX, js.FAdd[startX, distance])] \o <<>>)

\* samplePathPoints(equation, startX, distance, numSamples): [threw, pts]
samplePathPoints(js, equation, startX, distance, numSamples) ==
    CASE equation.type \in {"explicit_y", "piecewise"} ->
           [threw |-> FALSE,
            pts |-> SampleExplicitY(js, equation, startX,
                        js.FDiv[distance, js.IntToF[numSamples]], numSamples)]
      [] equation.type = "explicit_x" ->
           [threw |-> FALSE,
            pts |-> SampleExplicitX(js, equation, startX, distance,
                        js.FDiv[distance, js.IntToF[numSamples]], numSamples)]
      [] equation.type = "implicit" ->
           GetPoints(js, equation, startX, js.FAdd[startX, distance],
                     js.IntToF[-10], js.IntToF[10], numSamples)
      [] OTHER -> [threw |-> FALSE, pts |-> <<>>]

\* the inner forEach of calculatePathScore: minDistanceToStar
MinDistanceToStar(js, samplePoints, star) ==
    MinOf(js, [i \in 1 .. Len(samplePoints) |->
              js.Dist[js.FSub[samplePoints[i].x, star.x],
                   js.FSub[samplePoints[i].y, star.y]]] \o <<>>)

\* if (minDistanceToStar < 2.0) score += (2.0 - minDistanceToStar) * 100
ApproachScore(js, score, minDistanceToStar) ==
    IF js.FLt[minDistanceToStar, js.IntToF[2]]
    THEN js.FAdd[score, js.FMul[js.FSub[js.IntToF[2], minDistanceToStar], js.IntToF[100]]]
    ELSE score

\* if (dotProduct > 0) score += dotProduct * 10
DirectionBonus(js, score, dotProduct) ==
    IF js.FGt[dotProduct, Zero(0)] THEN js.FAdd[score, js.FMul[dotProduct, js.IntToF[10]]]
    ELSE score

\* directionToStar.x * pathDirection.x + directionToStar.y * pathDirection.y
DotProduct(js, directionToStar, pathDirection) ==
    js.FAdd[js.FMul[directionToStar.x, pathDirection.x],
         js.FMul[directionToStar.y, pathDirection.y]]

\* the score after the pass of the outer forEach for one uncollected star
StarScore(js, physics, marble, equation, closestPoint, samplePoints, star, score) ==
    TheOnly({ DirectionBonus(js, 
                  ApproachScore(js, score, MinDistanceToStar(js, samplePoints, star)),
                  DotProduct(js, Vec(js.FSub[star.x, marble.position.x],
                                 js.FSub[star.y, marble.position.y]),
                             pathDirection)) :
              pathDirection \in {calculatePathVelocity(js, physics, equation,
                                                      closestPoint.x)} })

RECURSIVE SumStarScores(_, _, _, _, _, _, _, _, _)
\* the outer forEach of calculatePathScore from star i on
SumStarScores(js, physics, marble, equation, closestPoint, samplePoints, uncollected, i, score) ==
    IF i > Len(uncollected) THEN score
    ELSE TheOnly({ SumStarScores(js, physics, marble, equation, closestPoint, samplePoints,
                                 uncollected, i + 1, next) :
                   next \in {StarScore(js, physics, marble, equation, closestPoint, samplePoints,
                                       uncollected[i], score)} })

\* calculatePathScore once the stars are filtered and the path sampled
PathScoreFrom(js, physics, marble, equation, closestPoint, uncollectedStars, sampled) ==
    IF Len(uncollectedStars) = 0 THEN Zero(0)
    ELSE IF sampled.threw THEN THROW
    ELSE SumStarScores(js, physics, marble, equation, closestPoint, sampled.pts,
                       uncollectedStars, 1, Zero(0))

\* star => !star.collected
Uncollected(star) == ~star.collected

\* calculatePathScore with the collected stars scored as well
calculatePathScoreUnfiltered(js, physics, marble, equation, closestPoint, stars) ==
    PathScoreFrom(js, physics, marble, equation, closestPoint, stars,
                  samplePathPoints(js, equation, marble.position.x, js.IntToF[5], 20))

\* calculatePathScore(marble, pathData, stars): the score, or THROW when
\* samplePathPoints lets an exception of getPoints through
calculatePathScore(js, physics, marble, equation, closestPoint, stars) ==
    PathScoreFrom(js, physics, marble, equation, closestPoint,
                  SelectSeq(stars, Uncollected),
                  samplePathPoints(js, equation, marble.position.x, js.IntToF[5], 20))

\* A candidate path: the equation (its index in the equations list), its
\* closest point and the distance.
Candidate(i, closestPoint) ==
    [equation |-> i, closestPoint |-> closestPoint, distance |-> closestPoint.distance]

NoCandidate == [equation |-> 0, closestPoint |-> NullPoint, distance |-> Zero(0)]

\* Better with >= in place of >
BetterOrEqual(js, score, bestScore) == js.FGe[score, bestScore]

\* score > bestScore, the comparison of findBestPathTowardStars
Better(js, score, bestScore) == js.FGt[score, bestScore]

RECURSIVE BestLoop(_, _, _, _, _, _, _, _, _)
\* one pass of the forEach of findBestPathTowardStars: candidate i has the
\* score score
BestStep(js, physics, marble, equations, candidatePaths, stars, i, bestPath, bestScore, score) ==
    IF score = THROW
    THEN [tag |-> "throw", path |-> NoCandidate, scored |-> i]
    ELSE IF Better(js, score, bestScore)
    THEN BestLoop(js, physics, marble, equations, candidatePaths, stars, i + 1,
                  candidatePaths[i], score)
    ELSE BestLoop(js, physics, marble, equations, candidatePaths, stars, i + 1, bestPath, bestScore)

\* the forEach of findBestPathTowardStars from candidate i on
BestLoop(js, physics, marble, equations, candidatePaths, stars, i, bestPath, bestScore) ==
    IF i > Len(candidatePaths)
    THEN [tag |-> IF bestPath = NoCandidate THEN "null" ELSE "path",
          path |-> bestPath, scored |-> Len(candidatePaths)]
    ELSE BestStep(js, physics, marble, equations, candidatePaths, stars, i, bestPath, bestScore,
                  calculatePathScore(js, physics, marble, equations[candidatePaths[i].equation],
                                     candidatePaths[i].closestPoint, stars))

\* findBestPathTowardStars with bestScore starting from 0 in place of
\* -Infinity
findBestPathFromZero(js, physics, marble, equations, candidatePaths, stars) ==
    IF Len(candidatePaths) <= 1
    THEN (IF Len(candidatePaths) = 0
          THEN [tag |-> "null", path |-> NoCandidate, scored |-> 0]
          ELSE [tag |-> "path", path |-> candidatePaths[1], scored |-> 0])
    ELSE BestLoop(js, physics, marble, equations, candidatePaths, stars, 1, NoCandidate, Zero(0))

\* findBestPathTowardStars(marble, candidatePaths, stars): [tag, path, scored]
\* with tag "path", "null" or "throw" and scored the number of
\* calculatePathScore calls made
findBestPathTowardStars(js, physics, marble, equations, candidatePaths, stars) ==
    IF Len(candidatePaths) <= 1
    THEN (IF Len(candidatePaths) = 0
          THEN [tag |-> "null", path |-> NoCandidate, scored |-> 0]
          ELSE [tag |-> "path", path |-> candidatePaths[1], scored |-> 0])
    ELSE BestLoop(js, physics, marble, equations, candidatePaths, stars, 1, NoCandidate, NInf)

\* applyGravity(marble)
applyGravity(js, physics, velocity) == Vec(velocity.x, js.FAdd[velocity.y, physics.gravity])

\* applyFriction(marble)
applyFriction(js, physics, velocity) ==
    Vec(js.FMul[velocity.x, physics.friction], js.FMul[velocity.y, physics.friction])

\* updatePosition(marble, dt = 1)
updatePosition(js, position, velocity) ==
    Vec(js.FAdd[position.x, js.FMul[velocity.x, js.IntToF[1]]],
        js.FAdd[position.y, js.FMul[velocity.y, js.IntToF[1]]])

\* checkBounds(marble, bounds)
checkBounds(js, marble, bounds) ==
    IF js.FLt[marble.position.x, bounds.minX] \/ js.FGt[marble.position.x, bounds.maxX]
       \/ js.FLt[marble.position.y, bounds.minY] \/ js.FGt[marble.position.y, bounds.maxY]
    THEN FALSE
    ELSE TRUE

\* Touching with <= in place of <
TouchingOrEqual(js, distance, reach) == js.FLe[distance, reach]

\* return distance < (marble.radius + star.radius)
Touching(js, distance, reach) == js.FLt[distance, reach]

\* checkCollision(marble, star)
checkCollision(js, marble, star) ==
    Touching(js, js.Dist[js.FSub[marble.position.x, star.x], js.FSub[marble.position.y, star.y]],
             js.FAdd[marble.radius, star.radius])

-----------------------------------------------------------------------------
(***************************************************************************)
(* Marble                                                                  *)
(***************************************************************************)
maxTrailLength == 25
pathThreshold(js) == js.Lit[8000]
marbleRadius(js) == js.Lit[1500]
initialVelocityX(js) == js.Lit[500]

\* new Marble(x, y); currentEquation is 0 for null, else the index of the
\* equation object in the equations list
MarbleNew(js, x, y) ==
    [position |-> Vec(x, y),
     velocity |-> Vec(initialVelocityX(js), Zero(0)),
     radius |-> marbleRadius(js),
     onPath |-> FALSE,
     currentEquation |-> 0,
     trail |-> <<>>,
     maxTrailLength |-> maxTrailLength,
     pathThreshold |-> pathThreshold(js),
     timeOffPath |-> Zero(0)]

\* MarbleReset without the assignment to onPath of line 396
MarbleResetKeepingPath(js, m, x, y) ==
    [m EXCEPT !.position = Vec(x, y),
              !.velocity = Vec(initialVelocityX(js), Zero(0)),
              !.currentEquation = 0,
              !.trail = <<>>,
              !.timeOffPath = Zero(0)]

\* marble.reset(x, y)
MarbleReset(js, m, x, y) ==
    [m EXCEPT !.position = Vec(x, y),
              !.velocity = Vec(initialVelocityX(js), Zero(0)),
              !.onPath = FALSE,
              !.currentEquation = 0,
              !.trail = <<>>,
              !.timeOffPath = Zero(0)]

\* PushTrail without the shift of lines 405-407
PushTrailKeepAll(trail, position, maxLength) == Append(trail, position)

\* update, lines 404-407: push the position, shift when over capacity
PushTrail(trail, position, maxLength) ==
    IF Len(trail) + 1 > maxLength THEN Tail(Append(trail, position))
    ELSE Append(trail, position)

\* IsCandidate without the comparison against the threshold
IsCandidateAnyDistance(js, closestPoint, threshold) == closestPoint.tag = "point"

\* update, line 414: closestPoint && closestPoint.distance < this.pathThreshold
IsCandidate(js, closestPoint, threshold) ==
    closestPoint.tag = "point" /\ js.FLt[closestPoint.distance, threshold]

\* marble.stars as the constructor leaves it: the field is not set
StarsUnset == [set |-> FALSE, list |-> <<>>]

\* marble.stars once a list has been assigned to it
StarsList(list) == [set |-> TRUE, list |-> list]

\* update, line 426: this.stars || []
StarsOrEmpty(stars) == IF stars.set THEN stars.list ELSE <<>>

\* What a call marble.update(physics, equations) can reach: the engine,
\* the equations, the stars (this.stars) and the marble itself.  Each step
\* of update below writes the fields its lines assign.
Heap(physics, equations, stars, marble) ==
    [physics |-> physics, equations |-> equations, stars |-> stars, marble |-> marble]

\* update, lines 404-407: the trail
TrailStep(h) ==
    [h EXCEPT !.marble.trail =
        PushTrail(h.marble.trail, h.marble.position, h.marble.maxTrailLength)]

\* the heap as the call of findClosestPointOnPath for equation i left it
AfterSearch(h, i, call) ==
    [h EXCEPT !.marble = call.marble, !.equations[i] = call.equation]

RECURSIVE CandidateLoop(_, _, _, _)
RECURSIVE CandidateStep(_, _, _, _, _)
\* update, lines 413-420: one pass of the loop, h being the heap after the
\* call of findClosestPointOnPath for equation i and closestPoint what it
\* returned
CandidateStep(js, h, i, paths, closestPoint) ==
    IF closestPoint.tag = "throw" THEN [threw |-> TRUE, paths |-> paths, heap |-> h]
    ELSE IF IsCandidate(js, closestPoint, h.marble.pathThreshold)
    THEN CandidateLoop(js, h, i + 1, Append(paths, Candidate(i, closestPoint)))
    ELSE CandidateLoop(js, h, i + 1, paths)

\* update, lines 412-421: the loop over the equations from index i on;
\* [threw, paths, heap]
CandidateLoop(js, h, i, paths) ==
    IF i > Len(h.equations) THEN [threw |-> FALSE, paths |-> paths, heap |-> h]
    ELSE TheOnly({ CandidateStep(js, AfterSearch(h, i, call), i, paths, call.result) :
                   call \in {ClosestPointCall(js, h.marble, h.equations[i])} })

\* update, line 446
BlendFactor(js, wasOnPath) == IF wasOnPath THEN js.Lit[8000] ELSE js.Lit[5000]

\* update, lines 439-440: the position moved toward bestPoint
Snapped(js, position, bestPoint, snapStrength) ==
    Vec(js.FAdd[position.x, js.FMul[js.FSub[bestPoint.x, position.x], snapStrength]],
        js.FAdd[position.y, js.FMul[js.FSub[bestPoint.y, position.y], snapStrength]])

\* update, lines 447-451: the blend of the velocity with pathVel, then the
\* gravity influence on velocity.y
Blended(js, physics, velocity, pathVel, blendFactor) ==
    Vec(js.FAdd[js.FMul[velocity.x, js.FSub[js.IntToF[1], blendFactor]],
             js.FMul[pathVel.x, blendFactor]],
        js.FAdd[js.FAdd[js.FMul[velocity.y, js.FSub[js.IntToF[1], blendFactor]],
                  js.FMul[pathVel.y, blendFactor]],
             js.FMul[physics.gravity, js.Lit[3000]]])

\* FollowFrom with every star marked collected
FollowFromCollecting(js, h, equation, index, snapped, wasOnPath) ==
    [h EXCEPT !.marble.onPath = TRUE,
              !.marble.currentEquation = index,
              !.marble.timeOffPath = Zero(0),
              !.marble.position = snapped,
              !.marble.velocity =
                  TheOnly({ Blended(js, h.physics, h.marble.velocity, pathVel,
                                    BlendFactor(js, wasOnPath)) :
                            pathVel \in {calculatePathVelocity(js, h.physics, equation,
                                                               snapped.x)} }),
              !.stars = StarsList([i \in 1 .. Len(StarsOrEmpty(h.stars)) |->
                            [StarsOrEmpty(h.stars)[i] EXCEPT !.collected = TRUE]])]

\* update, lines 432-451 once the position is snapped
FollowFrom(js, h, equation, index, snapped, wasOnPath) ==
    [h EXCEPT !.marble.onPath = TRUE,
              !.marble.currentEquation = index,
              !.marble.timeOffPath = Zero(0),
              !.marble.position = snapped,
              !.marble.velocity =
                  TheOnly({ Blended(js, h.physics, h.marble.velocity, pathVel,
                                    BlendFactor(js, wasOnPath)) :
                            pathVel \in {calculatePathVelocity(js, h.physics, equation,
                                                               snapped.x)} })]

\* update, lines 432-451: the marble follows bestPathData
OnPathStep(js, h, bestPathData, wasOnPath) ==
    FollowFrom(js, h, h.equations[bestPathData.equation], bestPathData.equation,
               Snapped(js, h.marble.position, bestPathData.closestPoint,
                       h.physics.pathSnapStrength),
               wasOnPath)

\* update, lines 462-463: air resistance
AirResistance(js, velocity) == Vec(js.FMul[velocity.x, js.Lit[9950]], js.FMul[velocity.y, js.Lit[9950]])

\* update, lines 453-464: no path, full physics
FreefallStep(js, h) ==
    [h EXCEPT !.marble.onPath = FALSE,
              !.marble.currentEquation = 0,
              !.marble.timeOffPath = js.FAdd[h.marble.timeOffPath, js.IntToF[1]],
              !.marble.velocity =
                  AirResistance(js, applyGravity(js, h.physics, h.marble.velocity))]

\* the threshold 0.001 of the anti-stall test
stallSpeed(js) == js.Lit[10]

\* the 0.01 the anti-stall nudge adds to velocity.x
stallNudge(js) == js.Lit[100]

\* IsStalled with || in place of &&
IsStalledEither(js, velocity) ==
    js.FLt[js.FAbs[velocity.x], stallSpeed(js)] \/ js.FLt[js.FAbs[velocity.y], stallSpeed(js)]

\* update, lines 473-475: the guard of the anti-stall nudge
IsStalled(js, velocity) ==
    js.FLt[js.FAbs[velocity.x], stallSpeed(js)] /\ js.FLt[js.FAbs[velocity.y], stallSpeed(js)]

\* update, lines 473-475
AntiStall(js, velocity) ==
    IF IsStalled(js, velocity) THEN Vec(js.FAdd[velocity.x, stallNudge(js)], velocity.y)
    ELSE velocity

\* MoveWith with the anti-stall nudge applied before the position is
\* written
MoveWithNudged(js, h, slowed) ==
    [h EXCEPT !.marble.velocity = AntiStall(js, slowed),
              !.marble.position = updatePosition(js, h.marble.position, AntiStall(js, slowed))]

\* update, lines 469-475 once friction is applied
MoveWith(js, h, slowed) ==
    [h EXCEPT !.marble.velocity = AntiStall(js, slowed),
              !.marble.position = updatePosition(js, h.marble.position, slowed)]

\* update, lines 466-475: friction, then the position, then the nudge
FinishStep(js, h) == MoveWith(js, h, applyFriction(js, h.physics, h.marble.velocity))

\* update, lines 429-475: bestPathData is chosen (or the call has thrown)
StepWith(js, h, best, wasOnPath) ==
    IF best.tag = "throw" THEN [threw |-> TRUE, heap |-> h]
    ELSE IF best.tag = "path"
    THEN [threw |-> FALSE, heap |-> FinishStep(js, OnPathStep(js, h, best.path, wasOnPath))]
    ELSE [threw |-> FALSE, heap |-> FinishStep(js, FreefallStep(js, h))]

\* update, lines 424-427: bestPathData; findBestPathTowardStars and the
\* methods it calls assign to locals only (stars.filter builds a new array)
BestPathData(js, h, candidatePaths) ==
    IF Len(candidatePaths) > 0
    THEN findBestPathTowardStars(js, h.physics, h.marble, h.equations, candidatePaths,
                                 StarsOrEmpty(h.stars))
    ELSE [tag |-> "null", path |-> NoCandidate, scored |-> 0]

\* update, lines 423-475: the candidate loop is done (or has thrown)
ChooseAndStep(js, found, wasOnPath) ==
    IF found.threw THEN [threw |-> TRUE, heap |-> found.heap]
    ELSE StepWith(js, found.heap, BestPathData(js, found.heap, found.paths), wasOnPath)

\* update, lines 409-475: the trail is written
UpdateFrom(js, h, wasOnPath) == ChooseAndStep(js, CandidateLoop(js, h, 1, <<>>), wasOnPath)

\* what a tick shares between the marbles: the equations, the stars and
\* the PhysicsEngine
World(js, eqs, sts) == [equations |-> eqs, stars |-> sts, physics |-> PhysicsNew(js)]

\* what a call of update leaves: the world, the marble, and whether an
\* exception left the call
Left(r) ==
    [world |-> [equations |-> r.heap.equations, stars |-> r.heap.stars,
                physics |-> r.heap.physics],
     marble |-> r.heap.marble,
     threw |-> r.threw]

\* one call m.update(physics, equations) in a world, with this.stars what
\* world.stars holds: [world, marble, threw].  When
\* findClosestPointOnPath or findBestPathTowardStars throws, update is
\* left with only the trail written.
UpdateCall(js, world, m) ==
    Left(UpdateFrom(js, TrailStep(Heap(world.physics, world.equations, world.stars, m)),
                    m.onPath))

\* UpdateCall with wasOnPath read after line 430 has overwritten onPath
\* (on an on-path tick the flag is then already true)
UpdateCallLateRead(js, world, m) ==
    Left(UpdateFrom(js, TrailStep(Heap(world.physics, world.equations, world.stars, m)),
                    TRUE))

\* what a call leaves of the marble
OfMarble(left) == [threw |-> left.threw, marble |-> left.marble]

\* MarbleUpdate with wasOnPath read late
MarbleUpdateLateRead(js, m, equations, stars) ==
    OfMarble(UpdateCallLateRead(js, World(js, equations, stars), m))

\* marble.update(physics, equations) with a new PhysicsEngine and stars
\* what this.stars holds: [threw, marble]
MarbleUpdate(js, m, equations, stars) == OfMarble(UpdateCall(js, World(js, equations, stars), m))
-----------------------------------------------------------------------------
(***************************************************************************)
(* The game around one marble: a list of equations, fixed while the marble *)
(* runs, and the stars the game puts in marble.stars; update is called     *)
(* once per frame and reset when the player resets.                        *)
(***************************************************************************)
VARIABLES
    marble,     \* the Marble object
    equations,  \* the equations list handed to update
    stars,      \* marble.stars: StarsUnset, or StarsList(list)
    threw,      \* the last update call was left by an exception
    pre,        \* the marble as it was when update was last called since new/reset
    lastOp,     \* "new", "update" or "reset"
    ticks,      \* update calls since construction or the last reset
    probe       \* the last call of a pure function: its arguments and result

vars == <<marble, equations, stars, threw, pre, lastOp, ticks, probe>>

MaxTicks == 27

Star(js, x, y, collected) == [x |-> x, y |-> y, radius |-> js.Lit[3000], collected |-> collected]

\* The equation lists the marble is run with, as EquationParser builds
\* them, each with a star list of the game.
Scenes(js) ==
    { [equations |-> <<>>, stars |-> <<>>],
      [equations |-> <<Eq("explicit_y", "zero")>>, stars |-> <<>>],
      [equations |-> <<Eq("explicit_y", "square")>>,
       stars |-> <<Star(js, js.IntToF[3], Zero(0), FALSE)>>],
      [equations |-> <<Eq("explicit_y", "zero"), Eq("explicit_y", "half")>>,
       stars |-> <<Star(js, js.IntToF[3], js.Lit[15000], FALSE)>>],
      [equations |-> <<Eq("explicit_y", "zero"), Eq("explicit_y", "half")>>,
       stars |-> <<Star(js, js.IntToF[3], js.Lit[15000], TRUE), Star(js, js.IntToF[2], Zero(0), FALSE)>>],
      [equations |-> <<Eq("explicit_y", "half"), Eq("explicit_y", "zero"),
                       EqPiecewise("zero", ">", Zero(0))>>,
       stars |-> <<Star(js, js.IntToF[3], js.Lit[15000], TRUE)>>],
      [equations |-> <<Eq("explicit_y", "half"), Eq("explicit_y", "zero"),
                       EqPiecewise("zero", ">", Zero(0))>>,
       stars |-> <<Star(js, js.IntToF[3], Zero(0), FALSE)>>],
      [equations |-> <<Eq("explicit_y", "steep")>>, stars |-> <<>>],
      [equations |-> <<Eq("explicit_y", "recip")>>, stars |-> <<>>],
      [equations |-> <<Eq("explicit_x", "zero"), Eq("explicit_x", "half")>>,
       stars |-> <<Star(js, js.IntToF[1], js.IntToF[2], FALSE)>>],
      [equations |-> <<EqPiecewise("half", "<=", Zero(0))>>, stars |-> <<>>],
      [equations |-> <<Eq("implicit", "axis"), Eq("explicit_y", "zero")>>,
       stars |-> <<Star(js, js.IntToF[2], Zero(0), FALSE)>>] }

\* Equation lists holding objects EquationParser never builds: an unknown
\* type tag, methods that throw, a sampler returning NaN points.
DuckScenes(js) ==
    { [equations |-> <<Eq("explicit_y", "raise"), Eq("explicit_x", "raise")>>,
       stars |-> <<>>],
      [equations |-> <<Eq("parametric", "zero"), Eq("explicit_y", "zero")>>,
       stars |-> <<>>],
      [equations |-> <<Eq("implicit", "nanpt"), Eq("explicit_y", "half"),
                       Eq("explicit_y", "zero")>>,
       stars |-> <<Star(js, js.IntToF[2], Zero(0), FALSE)>>],
      [equations |-> <<Eq("explicit_y", "zero"), Eq("implicit", "raise")>>,
       stars |-> <<>>],
      [equations |-> <<Eq("implicit", "raise")>>, stars |-> <<>>] }

\* Where a marble is placed: getStartPosition of ui.js clamps the two
\* inputs to [-10, 10], and takes -8 and 8 for an input that is empty or 0.
Starts(js) ==
    { Vec(js.Lit[5000], js.Lit[5000]), Vec(js.IntToF[-10], js.Lit[5000]),
      Vec(js.Lit[3000], js.IntToF[2]), Vec(js.IntToF[-8], js.IntToF[8]) }

\* where the marble is placed among implicit curves
ImplicitStarts(js) == { Vec(js.Lit[5000], js.Lit[5000]) }

\* the start positions used with a list of equations
StartsIn(js, eqs) ==
    IF \E i \in 1 .. Len(eqs) : eqs[i].type = "implicit" /\ eqs[i].fn = "axis"
    THEN ImplicitStarts(js)
    ELSE Starts(js)

NoProbe == [op |-> "none"]

Init ==
    \E js \in {JS} :
       /\ \E scene \in Scenes(js) :
             /\ equations = scene.equations
             /\ \E start \in StartsIn(js, scene.equations) :
                   /\ marble = MarbleNew(js, start.x, start.y)
                   /\ pre = MarbleNew(js, start.x, start.y)
       /\ stars = StarsUnset
       /\ threw = FALSE
       /\ lastOp = "new"
       /\ ticks = 0
       /\ probe = NoProbe

\* the state a call of update leaves: the marble, and whether it threw
Returned(r) ==
    /\ marble' = r.marble
    /\ threw' = r.threw

\* one frame: marble.update(physics, equations)
Update ==
    /\ ticks < MaxTicks
    /\ Returned(MarbleUpdate(JS, marble, equations, stars))
    /\ pre' = marble
    /\ lastOp' = "update"
    /\ ticks' = ticks + 1
    /\ UNCHANGED <<equations, stars, probe>>

\* marble.reset(x, y)
Reset ==
    \E js \in {JS} :
       /\ \E start \in StartsIn(js, equations) : marble' = MarbleReset(js, marble, start.x, start.y)
       /\ threw' = FALSE
       /\ pre' = marble'
       /\ lastOp' = "reset"
       /\ ticks' = 0
       /\ UNCHANGED <<equations, stars, probe>>

\* marble.stars = list, by the game that owns the marble, before the first
\* frame of a run: the list of a scene with the equations the marble runs on
AssignStars ==
    \E js \in {JS} :
       /\ ticks = 0
       /\ \E scene \in Scenes(js) \cup DuckScenes(js) :
             /\ scene.equations = equations
             /\ stars' = StarsList(scene.stars)
       /\ UNCHANGED <<marble, equations, threw, pre, lastOp, ticks, probe>>

Next == Update \/ Reset \/ AssignStars

Spec == Init /\ [][Next]_vars

\* the same game run with the equation objects of DuckScenes
InitDuck ==
    \E js \in {JS} :
       /\ \E scene \in DuckScenes(js) : equations = scene.equations
       /\ stars = StarsUnset
       /\ \E start \in Starts(js) :
             /\ marble = MarbleNew(js, start.x, start.y)
             /\ pre = MarbleNew(js, start.x, start.y)
       /\ threw = FALSE
       /\ lastOp = "new"
       /\ ticks = 0
       /\ probe = NoProbe

SpecDuck == InitDuck /\ [][Next]_vars

-----------------------------------------------------------------------------
(***************************************************************************)
(* The pure functions of PhysicsEngine, and single update calls, applied   *)
(* to arguments drawn from small sets; probe records the call.             *)
(***************************************************************************)

\* coordinates on and around the edges of the bounds below
ProbeCoords(js) ==
    { js.IntToF[-11], js.Lit[-100001], js.IntToF[-10], js.Lit[-99999], Zero(0), js.Lit[99999],
      js.IntToF[10], js.Lit[100001], NaN }

ProbeBounds(js) ==
    { [minX |-> js.IntToF[-10], maxX |-> js.IntToF[10], minY |-> js.IntToF[-10], maxY |-> js.IntToF[10]],
      [minX |-> Zero(0), maxX |-> js.Lit[99999], minY |-> js.IntToF[-11], maxY |-> Zero(0)] }

\* offsets of the marble from a star: around 0.45, and the sum
\* marble.radius + star.radius as the code computes it
ProbeOffsets(js) ==
    { js.Lit[k] : k \in {-4600, -4500, -4499, -3600, -2700, 0, 2700, 3600, 4499, 4500, 4600} }
        \cup { js.FAdd[marbleRadius(js), js.Lit[3000]] }

ProbeStars(js) == { Star(js, Zero(0), Zero(0), FALSE), Star(js, js.IntToF[1], js.IntToF[-2], TRUE) }

\* the curves calculateDerivative is probed with; "raise" is hand-built
ProbeEquations(js) ==
    { Eq("explicit_y", "zero"), Eq("explicit_y", "half"), Eq("explicit_y", "square"),
      Eq("explicit_y", "recip"), Eq("explicit_y", "steep"),
      Eq("explicit_y", "raise"), EqPiecewise("half", ">", Zero(0)),
      EqPiecewise("square", "<=", js.IntToF[1]) }

ProbeXs(js) ==
    { js.IntToF[-10], js.IntToF[-1], js.Lit[-50], Zero(0), js.Lit[50], js.Lit[5000], js.IntToF[1],
      js.Lit[10050], js.IntToF[3] }

ProbeVelocities(js) ==
    { Vec(js.Lit[5], js.Lit[-3]), Vec(js.Lit[500], Zero(0)), Vec(Zero(0), js.Lit[1500]),
      Vec(js.Lit[-8], js.Lit[1505]), Vec(Zero(0), Zero(0)), Vec(js.Lit[5], js.Lit[1495]),
      Vec(js.Lit[10], js.Lit[1500]), Vec(js.Lit[-1200], js.Lit[300]) }

ProbePositions(js) ==
    { Vec(Zero(0), js.Lit[5000]), Vec(Zero(0), Zero(0)), Vec(js.Lit[3000], js.Lit[-2000]),
      Vec(js.IntToF[1], js.Lit[4000]), Vec(js.IntToF[-10], Zero(0)), Vec(js.IntToF[5], js.IntToF[8]),
      Vec(js.IntToF[-1], js.Lit[-3000]) }

\* the position implicit curves are probed from
ProbeImplicitPositions(js) == { Vec(js.IntToF[1], js.Lit[4000]) }

\* the positions a list of equations is probed from
ProbePositionsFor(js, eqs) ==
    IF \E i \in 1 .. Len(eqs) : eqs[i].type = "implicit"
    THEN ProbeImplicitPositions(js)
    ELSE ProbePositions(js)

InitFn ==
    \E js \in {JS} :
       /\ marble = MarbleNew(js, js.IntToF[-8], js.IntToF[8])
       /\ pre = MarbleNew(js, js.IntToF[-8], js.IntToF[8])
       /\ equations = <<>>
       /\ stars = StarsUnset
       /\ threw = FALSE
       /\ lastOp = "new"
       /\ ticks = 0
       /\ probe = NoProbe

\* physics.checkBounds(marble, bounds)
ProbeCheckBounds ==
    \E js \in {JS} :
       /\ probe = NoProbe
       /\ \E x \in ProbeCoords(js), y \in ProbeCoords(js), b \in ProbeBounds(js) :
             probe' = [op |-> "checkBounds", x |-> x, y |-> y, bounds |-> b,
                       result |-> checkBounds(js, MarbleNew(js, x, y), b)]
       /\ UNCHANGED <<marble, equations, stars, threw, pre, lastOp, ticks>>

\* the record of one checkCollision call
CollisionCall(js, m, star) ==
    [op |-> "checkCollision", marble |-> m, star |-> star,
     result |-> checkCollision(js, m, star)]

\* physics.checkCollision(marble, star)
ProbeCheckCollision ==
    \E js \in {JS} :
       /\ probe = NoProbe
       /\ \E dx \in ProbeOffsets(js), dy \in ProbeOffsets(js), star \in ProbeStars(js) :
             probe' = CollisionCall(js, MarbleNew(js, js.FAdd[star.x, dx], js.FAdd[star.y, dy]), star)
       /\ UNCHANGED <<marble, equations, stars, threw, pre, lastOp, ticks>>

\* physics.calculateDerivative(equation, x)
ProbeDerivative ==
    \E js \in {JS} :
       /\ probe = NoProbe
       /\ \E equation \in ProbeEquations(js), x \in ProbeXs(js) :
             probe' = [op |-> "calculateDerivative", equation |-> equation, x |-> x,
                       y1 |-> Evaluate(js, equation, js.FSub[x, js.FDiv[derivativeStep(js), js.IntToF[2]]]),
                       y2 |-> Evaluate(js, equation, js.FAdd[x, js.FDiv[derivativeStep(js), js.IntToF[2]]]),
                       result |-> calculateDerivative(js, equation, x)]
       /\ UNCHANGED <<marble, equations, stars, threw, pre, lastOp, ticks>>

\* a marble at the default start moving with the given velocity
Moving(js, velocity) == [MarbleNew(js, js.IntToF[-8], js.IntToF[8]) EXCEPT !.velocity = velocity]

\* one marble.update(physics, []) of a marble moving with a given velocity
ProbeFreefall ==
    \E js \in {JS} :
       /\ probe = NoProbe
       /\ \E velocity \in ProbeVelocities(js) :
             probe' = [op |-> "update", before |-> Moving(js, velocity),
                       after |-> MarbleUpdate(js, Moving(js, velocity), <<>>, StarsUnset).marble]
       /\ UNCHANGED <<marble, equations, stars, threw, pre, lastOp, ticks>>

\* the record of one findBestPathTowardStars call: the candidate list, the
\* score calculatePathScore gives each candidate, and the result
FindBestCall(js, m, scene, position, paths) ==
    [op |-> "findBestPathTowardStars",
     equations |-> scene.equations,
     stars |-> scene.stars,
     position |-> position,
     candidatePaths |-> paths,
     scores |-> [i \in 1 .. Len(paths) |->
                    calculatePathScore(js, PhysicsNew(js), m, scene.equations[paths[i].equation],
                                       paths[i].closestPoint, scene.stars)],
     result |-> findBestPathTowardStars(js, PhysicsNew(js), m, scene.equations, paths,
                                       scene.stars)]

\* physics.findBestPathTowardStars(marble, candidatePaths, stars) on the
\* candidate list update builds for a marble placed in a scene
ProbeFindBest ==
    \E js \in {JS} :
       /\ probe = NoProbe
       /\ \E scene \in Scenes(js) :
             \E position \in ProbePositionsFor(js, scene.equations) :
                probe' = FindBestCall(js, MarbleNew(js, position.x, position.y), scene, position,
                             CandidateLoop(js, Heap(PhysicsNew(js), scene.equations, StarsList(scene.stars),
                                                MarbleNew(js, position.x, position.y)),
                                           1, <<>>).paths)
       /\ UNCHANGED <<marble, equations, stars, threw, pre, lastOp, ticks>>

\* the curves the closest-point search is probed with, of every kind; the
\* "raise" objects and the "parametric" one are hand-built
ProbeCurves(js) ==
    { Eq("explicit_y", "zero"), Eq("explicit_y", "square"), Eq("explicit_y", "recip"),
      Eq("explicit_y", "raise"),
      Eq("explicit_x", "half"), Eq("explicit_x", "undef"), Eq("explicit_x", "raise"),
      EqPiecewise("half", ">", Zero(0)), EqPiecewise("zero", "<=", js.IntToF[-3]),
      Eq("implicit", "axis"), Eq("implicit", "dot"), Eq("implicit", "empty"),
      Eq("parametric", "zero") }

\* the record of two calls in a row, the second on what the first left
TwoClosestPointCalls(js, m, equation, first) ==
    [op |-> "findClosestPointOnPath", marble |-> m, equation |-> equation,
     first |-> first,
     second |-> ClosestPointCall(js, first.marble, first.equation)]

\* physics.findClosestPointOnPath(marble, equation), called twice
ProbeClosestPoint ==
    \E js \in {JS} :
       /\ probe = NoProbe
       /\ \E equation \in ProbeCurves(js) :
             \E position \in ProbePositionsFor(js, <<equation>>) :
                probe' = TwoClosestPointCalls(js, MarbleNew(js, position.x, position.y), equation,
                             ClosestPointCall(js, MarbleNew(js, position.x, position.y), equation))
       /\ UNCHANGED <<marble, equations, stars, threw, pre, lastOp, ticks>>

\* marble b updated in the world the update of marble a left
ThenUpdate(js, after, b) ==
    [first |-> after.marble, second |-> UpdateCall(js, after.world, b)]

\* the record of one tick of two marbles a and b, updated a first and
\* updated b first
TwoMarbleTick(js, world, a, b) ==
    [op |-> "tick", world |-> world, a |-> a, b |-> b,
     ab |-> ThenUpdate(js, UpdateCall(js, world, a), b),
     ba |-> ThenUpdate(js, UpdateCall(js, world, b), a)]

\* where the first of the two marbles stands
ProbeFirstPositions(js) == { Vec(Zero(0), js.Lit[5000]), Vec(js.IntToF[1], js.Lit[4000]) }

\* where the second of the two marbles stands
ProbeSecondPositions(js) ==
    { Vec(js.Lit[3000], js.Lit[-2000]), Vec(js.IntToF[-10], Zero(0)), Vec(js.IntToF[5], js.IntToF[8]) }

\* the places [a, b] of two marbles among a list of equations
ProbePairsFor(js, eqs) ==
    IF \E i \in 1 .. Len(eqs) : eqs[i].type = "implicit"
    THEN { [a |-> Vec(Zero(0), js.Lit[5000]), b |-> Vec(js.IntToF[1], js.Lit[4000])] }
    ELSE { [a |-> pa, b |-> pb] : pa \in ProbeFirstPositions(js), pb \in ProbeSecondPositions(js) }

\* one tick of two marbles sharing the equations and stars of a scene
ProbeTwoMarbles ==
    \E js \in {JS} :
       /\ probe = NoProbe
       /\ \E scene \in Scenes(js) :
             \E at \in ProbePairsFor(js, scene.equations) :
                probe' = TwoMarbleTick(js, World(js, scene.equations, StarsList(scene.stars)),
                                       MarbleNew(js, at.a.x, at.a.y), MarbleNew(js, at.b.x, at.b.y))
       /\ UNCHANGED <<marble, equations, stars, threw, pre, lastOp, ticks>>

\* the star list with star e put in after its first k entries
InsertAt(list, k, e) ==
    SubSeq(list, 1, k) \o <<e>> \o SubSeq(list, k + 1, Len(list))

\* lists of uncollected stars
ProbeStarLists(js) ==
    { <<>>,
      <<Star(js, js.IntToF[3], Zero(0), FALSE)>>,
      <<Star(js, js.IntToF[2], Zero(0), FALSE), Star(js, js.IntToF[1], js.IntToF[2], FALSE)>> }

\* the star lists calculatePathScore is probed with on a curve
ProbeStarListsFor(js, equation) ==
    IF equation.type = "implicit" THEN { <<Star(js, js.IntToF[3], Zero(0), FALSE)>> }
    ELSE ProbeStarLists(js)

\* a collected star, and the same star at another place
CollectedStar(js) == Star(js, js.IntToF[1], js.Lit[5000], TRUE)

MovedStar(js) == Star(js, js.IntToF[3], js.Lit[15000], TRUE)

\* the record of three calculatePathScore calls for one candidate: with
\* the list of uncollected stars, with a collected star put into the list,
\* and with that collected star at another place
PathScoreCalls(js, m, equation, closestPoint, list, k, c1, c2) ==
    [op |-> "calculatePathScore", position |-> m.position, equation |-> equation,
     closestPoint |-> closestPoint, stars |-> list, at |-> k,
     score |-> calculatePathScore(js, PhysicsNew(js), m, equation, closestPoint, list),
     added |-> calculatePathScore(js, PhysicsNew(js), m, equation, closestPoint, InsertAt(list, k, c1)),
     moved |-> calculatePathScore(js, PhysicsNew(js), m, equation, closestPoint, InsertAt(list, k, c2))]

\* calculatePathScore on the candidate (equation, closestPoint), which
\* update builds only for a non-null closest point
PathScoreProbes(js, m, equation, closestPoint) ==
    /\ closestPoint.tag = "point"
    /\ \E list \in ProbeStarListsFor(js, equation) :
          \E k \in {0, Len(list)} :
             probe' = PathScoreCalls(js, m, equation, closestPoint, list, k,
                                     CollectedStar(js), MovedStar(js))

\* physics.calculatePathScore(marble, pathData, stars)
ProbePathScore ==
    \E js \in {JS} :
       /\ probe = NoProbe
       /\ \E equation \in ProbeCurves(js) :
             \E position \in ProbePositionsFor(js, <<equation>>) :
                PathScoreProbes(js, MarbleNew(js, position.x, position.y), equation,
                    findClosestPointOnPath(js, MarbleNew(js, position.x, position.y), equation))
       /\ UNCHANGED <<marble, equations, stars, threw, pre, lastOp, ticks>>

\* whether evaluate returned a finite number on every pass of the
\* explicit_y / piecewise loop of samplePathPoints (lines 341-351)
EveryEvaluationFinite(js, equation, startX, step, numSamples) ==
    \A i \in 0 .. numSamples :
        SampleAtX(js.FAdd[startX, js.FMul[js.IntToF[i], step]],
                  Evaluate(js, equation, js.FAdd[startX, js.FMul[js.IntToF[i], step]])) # <<>>

\* the record of one samplePathPoints call
SampleCall(js, equation, startX, distance, numSamples) ==
    [op |-> "samplePathPoints", equation |-> equation, startX |-> startX,
     distance |-> distance, numSamples |-> numSamples,
     finite |-> EveryEvaluationFinite(js, equation, startX,
                    js.FDiv[distance, js.IntToF[numSamples]], numSamples),
     result |-> samplePathPoints(js, equation, startX, distance, numSamples)]

\* physics.samplePathPoints(equation, startX, 5.0, 20), the call of
\* calculatePathScore (line 299)
ProbeSample ==
    \E js \in {JS} :
       /\ probe = NoProbe
       /\ \E equation \in ProbeCurves(js), startX \in ProbeXs(js) :
             probe' = SampleCall(js, equation, startX, js.IntToF[5], 20)
       /\ UNCHANGED <<marble, equations, stars, threw, pre, lastOp, ticks>>

\* the curves calculatePathVelocity is probed with
ProbeVelocityCurves(js) ==
    ProbeCurves(js) \cup { Eq("implicit", "raise"), Eq("explicit_x", "zero"),
                       Eq("explicit_x", "square"), Eq("explicit_x", "recip") }

\* whether some evaluate call made by calculateDerivative(equation, x) or
\* calculateDerivativeX(equation, x) throws
DerivativeRaises(js, equation, x) ==
    \/ Evaluate(js, equation, js.FSub[x, js.FDiv[derivativeStep(js), js.IntToF[2]]]) = THROW
    \/ Evaluate(js, equation, js.FAdd[x, js.FDiv[derivativeStep(js), js.IntToF[2]]]) = THROW

\* whether an exception reaches the catch block of calculatePathVelocity
\* (line 89): thrown by evaluate at line 73 or by getPoints at line 112,
\* got being what that getPoints call gives
ReachesCatch(js, equation, x, got) ==
    CASE equation.type = "explicit_x" -> Evaluate(js, equation, x) = THROW
      [] equation.type = "implicit" -> got.threw
      [] OTHER -> FALSE

\* whether an exception is raised anywhere during calculatePathVelocity
RaisedDuring(js, equation, x, got) ==
    CASE equation.type \in {"explicit_y", "piecewise"} -> DerivativeRaises(js, equation, x)
      [] equation.type = "explicit_x" ->
           \/ Evaluate(js, equation, x) = THROW
           \/ DerivativeRaises(js, equation, Evaluate(js, equation, x))
      [] OTHER -> ReachesCatch(js, equation, x, got)

\* the dx/dy estimate of the explicit_x arm (line 74), 0 for the other arms
SlopeEstimate(js, equation, x) ==
    IF equation.type = "explicit_x" /\ Evaluate(js, equation, x) # THROW
    THEN calculateDerivativeX(js, equation, Evaluate(js, equation, x))
    ELSE Zero(0)

\* how many points getPoints returned to calculateImplicitVelocity
SampledPoints(equation, got) ==
    IF equation.type = "implicit" THEN Len(got.pts) ELSE 0

\* the record of one calculatePathVelocity call, got being what the
\* getPoints call of calculateImplicitVelocity (line 112) gives
PathVelocityRecord(js, equation, x, got) ==
    [op |-> "calculatePathVelocity", equation |-> equation, x |-> x,
     raised |-> RaisedDuring(js, equation, x, got),
     caught |-> ReachesCatch(js, equation, x, got),
     points |-> SampledPoints(equation, got),
     dxdy |-> SlopeEstimate(js, equation, x),
     result |-> calculatePathVelocity(js, PhysicsNew(js), equation, x)]

PathVelocityCall(js, equation, x) ==
    PathVelocityRecord(js, equation, x,
        GetPoints(js, equation, js.FSub[x, js.Lit[1000]], js.FAdd[x, js.Lit[1000]],
                  js.IntToF[-10], js.IntToF[10], 20))

\* physics.calculatePathVelocity(equation, x)
ProbePathVelocity ==
    \E js \in {JS} :
       /\ probe = NoProbe
       /\ \E equation \in ProbeVelocityCurves(js), x \in ProbeXs(js) :
             probe' = PathVelocityCall(js, equation, x)
       /\ UNCHANGED <<marble, equations, stars, threw, pre, lastOp, ticks>>

NextFn ==
    \/ ProbeCheckBounds
    \/ ProbeCheckCollision
    \/ ProbeDerivative
    \/ ProbeFreefall
    \/ ProbeFindBest
    \/ ProbeClosestPoint
    \/ ProbeTwoMarbles
    \/ ProbePathScore
    \/ ProbeSample
    \/ ProbePathVelocity

SpecFn == InitFn /\ [][NextFn]_vars

-----------------------------------------------------------------------------
(***************************************************************************)
(* Freefall: a marble with a given velocity inside a bounds rectangle, no  *)
(* equations, and update called again and again for as long as checkBounds *)
(* returns true; probe holds the bounds.                                   *)
(***************************************************************************)

\* a marble at position moving with velocity
Falling(js, position, velocity) ==
    [MarbleNew(js, position.x, position.y) EXCEPT !.velocity = velocity]

\* bounds rectangles and positions inside them (edges included)
FallStarts(js) ==
    { [bounds |-> [minX |-> js.IntToF[-10], maxX |-> js.IntToF[10],
                   minY |-> js.IntToF[-10], maxY |-> js.IntToF[10]],
       position |-> Vec(js.IntToF[-8], js.IntToF[8])],
      [bounds |-> [minX |-> js.IntToF[-10], maxX |-> js.IntToF[10],
                   minY |-> js.IntToF[-10], maxY |-> js.IntToF[10]],
       position |-> Vec(Zero(0), js.IntToF[10])],
      [bounds |-> [minX |-> Zero(0), maxX |-> js.Lit[99999], minY |-> js.IntToF[-11],
                   maxY |-> Zero(0)],
       position |-> Vec(js.Lit[99900], js.Lit[-5000])],
      [bounds |-> [minX |-> Zero(0), maxX |-> js.Lit[99999], minY |-> js.IntToF[-11],
                   maxY |-> Zero(0)],
       position |-> Vec(Zero(0), Zero(0))] }

\* finite velocities: at rest, stalled after one tick, sideways, upward,
\* downward, and upward at 1e308, fast enough for position.y to overflow
FallVelocities(js) ==
    { Vec(Zero(0), Zero(0)), Vec(js.Lit[5], js.Lit[1495]), Vec(js.Lit[-8], js.Lit[1505]),
      Vec(js.Lit[500], Zero(0)), Vec(js.Lit[-1200], js.Lit[300]), Vec(Zero(0), js.IntToF[1]),
      Vec(js.Lit[3000], js.IntToF[-2]), Vec(Zero(0), Double(0, 971, 18665272, 99338400)) }

\* 2^56 and 2^57
TwoTo56(js) == js.FMul[js.IntToF[W], js.IntToF[W]]
TwoTo57(js) == js.FMul[js.IntToF[2], TwoTo56(js)]

\* a rectangle reaching down to -2^57, and the position (0, -2^56) in it
DeepFall(js) ==
    [bounds |-> [minX |-> js.IntToF[-10], maxX |-> js.IntToF[10],
                 minY |-> js.FNeg[TwoTo57(js)], maxY |-> Zero(0)],
     position |-> Vec(Zero(0), js.FNeg[TwoTo56(js)])]

\* -5.874096385542149, the velocity.y that gravity, air resistance and
\* friction map to itself: ((v - 0.15) * 0.995) * 0.98 = v
TerminalVelocityY == Double(1, 0 - 50, 24637745, 259379780)

\* 2^53 - 2
LateTicks(js) == js.FSub[js.FMul[js.IntToF[2 ^ 25], js.IntToF[W]], js.IntToF[2]]

\* The marble new Marble(0, -2^56) given the velocity (0, TerminalVelocityY)
\* as 2^53 - 2 updates with no equations have left it: every one of them
\* left the position and the velocity as they were, pushed the position
\* on the trail and added 1 to timeOffPath.
LateFalling(js) ==
    [Falling(js, DeepFall(js).position, Vec(Zero(0), TerminalVelocityY)) EXCEPT
        !.trail = [i \in 1 .. maxTrailLength |-> DeepFall(js).position],
        !.timeOffPath = LateTicks(js)]

InitFall ==
    \E js \in {JS} :
       /\ equations = <<>>
       /\ stars = StarsUnset
       /\ \/ \E start \in FallStarts(js), velocity \in FallVelocities(js) :
                /\ marble = Falling(js, start.position, velocity)
                /\ pre = Falling(js, start.position, velocity)
                /\ probe = [op |-> "fall", bounds |-> start.bounds]
          \/ /\ marble = LateFalling(js)
             /\ pre = LateFalling(js)
             /\ probe = [op |-> "fall", bounds |-> DeepFall(js).bounds]
       /\ threw = FALSE
       /\ lastOp = "new"
       /\ ticks = 0

\* a frame is due while checkBounds finds the marble inside the
\* rectangle; in a fall ticks holds the parity of the frames taken
Frame ==
    /\ checkBounds(JS, marble, probe.bounds)
    /\ ticks' = (ticks + 1) % 2

\* one frame of the fall: marble.update(physics, [])
Fall ==
    /\ Frame
    /\ Returned(MarbleUpdate(JS, marble, equations, stars))
    /\ pre' = marble
    /\ lastOp' = "update"
    /\ UNCHANGED <<equations, stars, probe>>

\* update is called every frame: as long as a frame is due, one is taken
SpecFall == InitFall /\ [][Fall]_vars /\ WF_ticks(Frame)

-----------------------------------------------------------------------------
(***************************************************************************)
(* PROPERTIES                                                              *)
(***************************************************************************)

\* C1: the trail never holds more than maxTrailLength (25) positions, and
\* an update appends exactly the position the marble had when update was
\* called, dropping the oldest entry when the trail was already full.
C1_TrailBounded ==
    /\ Len(marble.trail) <= 25
    /\ lastOp = "update" =>
          marble.trail = IF Len(pre.trail) < 25
                         THEN Append(pre.trail, pre.position)
                         ELSE Append(Tail(pre.trail), pre.position)

\* an update called with a full trail has evicted the oldest entry
C1_Witness ==
    /\ lastOp = "update"
    /\ Len(pre.trail) = 25
    /\ Len(marble.trail) = 25
    /\ marble.trail[25] = pre.position
    /\ marble.trail[1] = pre.trail[2]

\* the closest point is a point nearer than pathThreshold (0.8)
NearerThanThreshold(js, closestPoint) ==
    closestPoint.tag = "point" /\ js.FLt[closestPoint.distance, js.Lit[8000]]

\* C2: onPath implies a non-null currentEquation whose closest point, from
\* where the marble stood when update was called, was nearer than
\* pathThreshold; not onPath implies currentEquation is null.
C2_OnPathHasEquation ==
    /\ marble.onPath => marble.currentEquation # 0
    /\ ~marble.onPath => marble.currentEquation = 0
    /\ (lastOp = "update" /\ marble.onPath) =>
          /\ marble.currentEquation \in 1 .. Len(equations)
          /\ NearerThanThreshold(JS, 
                 findClosestPointOnPath(JS, pre, equations[marble.currentEquation]))

\* an update has put the marble on the second of two equations
C2_Witness ==
    /\ lastOp = "update"
    /\ marble.onPath
    /\ marble.currentEquation = 2
    /\ ~pre.onPath

\* some equation's closest point, from where the marble stood when update
\* was called, was nearer than pathThreshold
CandidateInReach ==
    \E i \in 1 .. Len(equations) :
        NearerThanThreshold(JS, findClosestPointOnPath(JS, pre, equations[i]))

\* C3: after an update call the marble is on a path exactly when some
\* equation's closest point was nearer than pathThreshold in that call.
C3_OnPathIffCandidate ==
    lastOp = "update" => (marble.onPath <=> CandidateInReach)

\* C4: findBestPathTowardStars gives null for no candidate, the sole
\* candidate without scoring it, and among several the first candidate of
\* maximal score.
C4_BestPath ==
    probe.op = "findBestPathTowardStars" =>
        /\ Len(probe.candidatePaths) = 0 => probe.result.tag = "null"
        /\ Len(probe.candidatePaths) = 1 =>
              /\ probe.result.tag = "path"
              /\ probe.result.path = probe.candidatePaths[1]
              /\ probe.result.scored = 0
        /\ Len(probe.candidatePaths) > 1 =>
              /\ probe.result.tag = "path"
              /\ \E i \in 1 .. Len(probe.candidatePaths) :
                    /\ probe.result.path = probe.candidatePaths[i]
                    /\ \A j \in 1 .. Len(probe.candidatePaths) :
                          /\ ~IsNaN(probe.scores[j])
                          /\ JS.FLe[probe.scores[j], probe.scores[i]]
                          /\ j < i => JS.FLt[probe.scores[j], probe.scores[i]]

\* three candidates, the maximal score shared by the second and the third,
\* and the second returned
C4_Witness ==
    /\ probe.op = "findBestPathTowardStars"
    /\ Len(probe.candidatePaths) = 3
    /\ JS.FLt[probe.scores[1], probe.scores[2]]
    /\ JS.FEq[probe.scores[2], probe.scores[3]]
    /\ probe.result.path = probe.candidatePaths[2]

\* C5: both velocity components are finite in every state reached by
\* update calls.
C5_VelocityFinite ==
    IsFinite(marble.velocity.x) /\ IsFinite(marble.velocity.y)

\* C6: no update call is left by an exception.
C6_UpdateNeverThrows == ~threw

\* a half-step evaluation that is NaN, infinite or thrown
Unusable(y) == y = THROW \/ IsNaN(y) \/ ~IsFinite(y)

\* C7 as stated: calculateDerivative returns 0 exactly when a half-step
\* evaluation is non-finite or throws, and never NaN.
C7_ZeroExactlyWhenUnusable ==
    probe.op = "calculateDerivative" =>
        /\ IsZero(probe.result) <=> (Unusable(probe.y1) \/ Unusable(probe.y2))
        /\ ~IsNaN(probe.result)

\* C7: calculateDerivative returns 0 whenever a half-step evaluation is
\* non-finite or throws; otherwise it returns (y2 - y1) / 0.01, which is 0
\* only when the two evaluations are equal; it never returns NaN.
C7_ZeroWhenUnusable ==
    probe.op = "calculateDerivative" =>
        /\ (Unusable(probe.y1) \/ Unusable(probe.y2)) => probe.result = Zero(0)
        /\ ~(Unusable(probe.y1) \/ Unusable(probe.y2)) =>
              /\ probe.result = JS.FDiv[JS.FSub[probe.y2, probe.y1], JS.Lit[100]]
              /\ IsZero(probe.result) <=> JS.FEq[probe.y1, probe.y2]
        /\ ~IsNaN(probe.result)
        /\ probe.result # THROW

\* a NaN half-step evaluation has given the derivative 0
C7_Witness ==
    /\ probe.op = "calculateDerivative"
    /\ IsNaN(probe.y1)
    /\ ~Unusable(probe.y2)
    /\ probe.result = Zero(0)

\* the velocity of a freefall update after gravity, air resistance and
\* friction, before the anti-stall test
SlowedFall(js, velocity) ==
    Vec(js.FMul[js.FMul[velocity.x, js.Lit[9950]], js.Lit[9800]],
        js.FMul[js.FMul[js.FAdd[velocity.y, js.Lit[-1500]], js.Lit[9950]], js.Lit[9800]])

\* the velocity the anti-stall test leaves: velocity.x raised by 0.01 when
\* both components are below 0.001 in magnitude, else unchanged
AfterNudge(js, slowed) ==
    IF js.FLt[js.FAbs[slowed.x], js.Lit[10]] /\ js.FLt[js.FAbs[slowed.y], js.Lit[10]]
    THEN Vec(js.FAdd[slowed.x, js.Lit[100]], slowed.y)
    ELSE slowed

\* C8 as stated: a marble with velocity (0.0005, -0.0003) and no path in
\* reach has, after one update, |velocity.x| >= 0.01 or velocity.x raised
\* by exactly 0.01 over its value before the anti-stall test.
C8_NudgeFires ==
    (probe.op = "update" /\ probe.before.velocity = Vec(JS.Lit[5], JS.Lit[-3])) =>
        \/ JS.FGe[JS.FAbs[probe.after.velocity.x], JS.Lit[100]]
        \/ probe.after.velocity.x = JS.FAdd[SlowedFall(JS, probe.before.velocity).x, JS.Lit[100]]

\* C8: in a freefall update gravity is applied before the anti-stall
\* test, so the nudge fires exactly when both components are below 0.001
\* in magnitude after gravity, air resistance and friction; the marble with
\* velocity (0.0005, -0.0003) ends with velocity.y near -0.1466 and
\* velocity.x not nudged.
C8_NudgeOnlyWhenBothSmall ==
    probe.op = "update" =>
        /\ probe.after.velocity = AfterNudge(JS, SlowedFall(JS, probe.before.velocity))
        /\ probe.before.velocity = Vec(JS.Lit[5], JS.Lit[-3]) =>
              /\ probe.after.velocity.x = JS.FMul[JS.FMul[JS.Lit[5], JS.Lit[9950]], JS.Lit[9800]]
              /\ JS.FLt[JS.Lit[-1467], probe.after.velocity.y]
              /\ JS.FLt[probe.after.velocity.y, JS.Lit[-1465]]

\* the update of the marble with velocity (0.0005, -0.0003): no nudge
C8_Witness ==
    /\ probe.op = "update"
    /\ probe.before.velocity = Vec(JS.Lit[5], JS.Lit[-3])
    /\ ~probe.after.onPath
    /\ JS.FLt[probe.after.velocity.x, JS.Lit[5]]
    /\ JS.FLt[probe.after.velocity.y, JS.Lit[-10]]

\* minX <= x <= maxX and minY <= y <= maxY
InsideBounds(js, position, bounds) ==
    /\ js.FLe[bounds.minX, position.x] /\ js.FLe[position.x, bounds.maxX]
    /\ js.FLe[bounds.minY, position.y] /\ js.FLe[position.y, bounds.maxY]

\* C9: checkBounds returns true exactly when minX <= x <= maxX and
\* minY <= y <= maxY, wherever the marble is.
C9_BoundsInclusive ==
    \A b \in ProbeBounds(JS) : checkBounds(JS, marble, b) <=> InsideBounds(JS, marble.position, b)

\* the distance between the centres of the marble and the star
CentreDistance(js, m, star) ==
    js.Dist[js.FSub[m.position.x, star.x], js.FSub[m.position.y, star.y]]

\* C10: checkCollision returns true exactly when the distance between the
\* centres is strictly less than marble.radius + star.radius, and false
\* at a distance equal to that sum.
C10_StrictCollision ==
    probe.op = "checkCollision" =>
        /\ probe.result <=> JS.FLt[CentreDistance(JS, probe.marble, probe.star),
                                JS.FAdd[probe.marble.radius, probe.star.radius]]
        /\ JS.FEq[CentreDistance(JS, probe.marble, probe.star),
               JS.FAdd[probe.marble.radius, probe.star.radius]] => ~probe.result

\* a marble whose distance to the star is exactly the sum of the radii
\* does not collide
C10_Witness ==
    /\ probe.op = "checkCollision"
    /\ CentreDistance(JS, probe.marble, probe.star)
          = JS.FAdd[probe.marble.radius, probe.star.radius]
    /\ probe.result = FALSE

\* calculatePathVelocity at the x a marble at position is snapped to on the
\* way to closestPoint (a candidate's closest point is never null)
PathVelocityFrom(js, position, equation, closestPoint) ==
    IF closestPoint.tag = "point"
    THEN calculatePathVelocity(js, PhysicsNew(js), equation,
                               Snapped(js, position, closestPoint, js.Lit[3000]).x)
    ELSE Vec(Zero(0), Zero(0))

\* the path velocity an on-path update computes for a marble on equation
PathVelocityAfterSnap(js, m, equation) ==
    PathVelocityFrom(js, m.position, equation, findClosestPointOnPath(js, m, equation))

\* C11: on an on-path update the velocity is the blend of the previous
\* velocity and the path velocity with weight 0.8 toward the path when the
\* marble was on a path when update was called, and 0.5 otherwise (then
\* the gravity influence, friction and the anti-stall test).
C11_BlendWeight ==
    (lastOp = "update" /\ marble.onPath) =>
        marble.velocity =
            AntiStall(JS, applyFriction(JS, PhysicsNew(JS),
                Blended(JS, PhysicsNew(JS), pre.velocity,
                        PathVelocityAfterSnap(JS, pre, equations[marble.currentEquation]),
                        IF pre.onPath THEN JS.Lit[8000] ELSE JS.Lit[5000])))

\* an on-path update of a marble that was already on a path, where the
\* weight 0.5 would have given another velocity
C11_Witness ==
    /\ lastOp = "update"
    /\ marble.onPath
    /\ pre.onPath
    /\ marble.velocity #
          AntiStall(JS, applyFriction(JS, PhysicsNew(JS),
              Blended(JS, PhysicsNew(JS), pre.velocity,
                      PathVelocityAfterSnap(JS, pre, equations[marble.currentEquation]),
                      JS.Lit[5000])))

\* C12: findClosestPointOnPath leaves the marble and the equation as they
\* were, and a second call with the same arguments returns what the first
\* returned.
C12_ClosestPointPure ==
    probe.op = "findClosestPointOnPath" =>
        /\ probe.first.marble = probe.marble
        /\ probe.first.equation = probe.equation
        /\ probe.second.marble = probe.marble
        /\ probe.second.equation = probe.equation
        /\ probe.second.result = probe.first.result

\* two calls that both found the same point off the marble's position
C12_Witness ==
    /\ probe.op = "findClosestPointOnPath"
    /\ probe.first.result.tag = "point"
    /\ JS.FGt[probe.first.result.distance, Zero(0)]
    /\ JS.FLt[probe.first.result.distance, PInf]
    /\ probe.second.result = probe.first.result

\* C13: an update call leaves the equations, the stars and the physics
\* configuration as they were, so two marbles updated in one tick end in
\* the same states whichever is updated first.
C13_UpdateFrame ==
    probe.op = "tick" =>
        /\ probe.ab.second.world = probe.world
        /\ probe.ba.second.world = probe.world
        /\ probe.ab.first = probe.ba.second.marble
        /\ probe.ab.second.marble = probe.ba.first

\* a tick in a world with an uncollected star in which both marbles moved
\* onto a path, the two on different equations
C13_Witness ==
    /\ probe.op = "tick"
    /\ \E i \in 1 .. Len(probe.world.stars.list) : ~probe.world.stars.list[i].collected
    /\ probe.ab.first.onPath
    /\ probe.ab.second.marble.onPath
    /\ probe.ab.first.currentEquation # probe.ab.second.marble.currentEquation
    /\ probe.ab.first.position # probe.a.position

\* C14: timeOffPath is 0 after construction, reset and every on-path
\* update, and every update that selects no path raises it by exactly 1,
\* so after any update onPath implies timeOffPath = 0 and not onPath
\* implies timeOffPath >= 1.
C14_TimeOffPathCounts ==
    /\ lastOp # "update" => marble.timeOffPath = Zero(0)
    /\ lastOp = "update" =>
          /\ marble.onPath => marble.timeOffPath = Zero(0)
          /\ ~marble.onPath =>
                /\ marble.timeOffPath = JS.FAdd[pre.timeOffPath, JS.IntToF[1]]
                /\ JS.FGe[marble.timeOffPath, JS.IntToF[1]]

\* C15: calculatePathScore depends only on the uncollected stars: with no
\* uncollected star the score is exactly 0, putting a collected star into
\* the list, moving it or taking it out again leaves the score as it was,
\* and findBestPathTowardStars given several candidates and no uncollected
\* star returns the first candidate.
C15_ScoreIgnoresCollected ==
    /\ probe.op = "calculatePathScore" =>
          /\ probe.added = probe.score
          /\ probe.moved = probe.score
          /\ Len(probe.stars) = 0 => probe.added = Zero(0)
    /\ (/\ probe.op = "findBestPathTowardStars"
        /\ Len(probe.candidatePaths) >= 2
        /\ \A i \in 1 .. Len(probe.stars) : probe.stars[i].collected) =>
          /\ \A i \in 1 .. Len(probe.scores) : probe.scores[i] = Zero(0)
          /\ probe.result.tag = "path"
          /\ probe.result.path = probe.candidatePaths[1]

C15_Witness ==
    /\ probe.op = "calculatePathScore"
    /\ Len(probe.stars) = 2
    /\ IsFinite(probe.score)
    /\ JS.FGt[probe.score, Zero(0)]
    /\ probe.added = probe.score

\* the sampled points all have x in [startX, startX + distance]
InForwardWindow(js, points, startX, distance) ==
    \A i \in 1 .. Len(points) :
        js.FGe[points[i].x, startX] /\ js.FLe[points[i].x, js.FAdd[startX, distance]]

\* C16: samplePathPoints(eq, startX, 5.0, 20) on an explicit_y or piecewise
\* curve whose every evaluation is finite yields 20 points with x in
\* [startX, startX + 5.0]; the points of an explicit_x curve lie in the
\* same forward window.
C16_TwentySamples ==
    probe.op = "samplePathPoints" =>
       /\ (probe.equation.type \in {"explicit_y", "piecewise"} /\ probe.finite) =>
             /\ Len(probe.result.pts) = 20
             /\ InForwardWindow(JS, probe.result.pts, probe.startX, probe.distance)
       /\ probe.equation.type = "explicit_x" =>
             InForwardWindow(JS, probe.result.pts, probe.startX, probe.distance)

\* the coordinate the scan of findClosestPointExplicitY / X ended on for a
\* marble at position: the value of closestX (closestY) at lines 186 / 224
MinimizingCoordinate(js, equation, position) ==
    IF equation.type = "explicit_x"
    THEN ScanRangeX(js, equation, position.x, position.y,
                    js.FMax[js.IntToF[-10], js.FSub[position.y, searchRadius(js)]],
                    js.FMin[js.IntToF[10], js.FAdd[position.y, searchRadius(js)]]).closest
    ELSE ScanRangeY(js, equation, position.x, position.y,
                    js.FMax[js.IntToF[-10], js.FSub[position.x, searchRadius(js)]],
                    js.FMin[js.IntToF[10], js.FAdd[position.x, searchRadius(js)]]).closest

\* along lies in the scan window [max(-10, m - r), min(10, m + r)]
InScanWindow(js, along, m) ==
    /\ js.FGe[along, js.FMax[js.IntToF[-10], js.FSub[m, searchRadius(js)]]]
    /\ js.FLe[along, js.FMin[js.IntToF[10], js.FAdd[m, searchRadius(js)]]]

\* result is a point of the curve inside the scan window around the marble,
\* with its finite Euclidean distance to the marble
PointOnCurve(js, equation, position, result) ==
    /\ result.tag = "point"
    /\ IsFinite(result.x) /\ IsFinite(result.y)
    /\ IF equation.type = "explicit_x"
       THEN result.x = Evaluate(js, equation, result.y) /\ InScanWindow(js, result.y, position.y)
       ELSE result.y = Evaluate(js, equation, result.x) /\ InScanWindow(js, result.x, position.x)
    /\ IsFinite(result.distance)
    /\ result.distance = js.Dist[js.FSub[result.x, position.x], js.FSub[result.y, position.y]]

\* C17: for explicit_y, piecewise and explicit_x curves the closest-point
\* search returns null only if the evaluation at the minimizing coordinate
\* fails, and in every other case a point of the curve inside the scan
\* window with its finite distance to the marble; for implicit curves it
\* returns null exactly when getPoints produced no points.
C17_NullOnlyOnFailure ==
    probe.op = "findClosestPointOnPath" =>
       /\ probe.equation.type \in {"explicit_y", "piecewise", "explicit_x"} =>
             IF Evaluate(JS, probe.equation,
                         MinimizingCoordinate(JS, probe.equation, probe.marble.position))
                  = THROW
             THEN probe.first.result.tag = "null"
             ELSE PointOnCurve(JS, probe.equation, probe.marble.position,
                               probe.first.result)
       /\ probe.equation.type = "implicit" =>
             (probe.first.result.tag = "null"
                <=> GetPoints(JS, probe.equation,
                              JS.FSub[probe.marble.position.x, searchRadius(JS)],
                              JS.FAdd[probe.marble.position.x, searchRadius(JS)],
                              JS.FSub[probe.marble.position.y, searchRadius(JS)],
                              JS.FAdd[probe.marble.position.y, searchRadius(JS)], 50).pts = <<>>)

\* the fallbacks of calculatePathVelocity for a call in which no exception
\* decides the result: (speed, 0) for an unrecognized kind, for an implicit
\* curve with fewer than 2 points and for an explicit_x curve whose dx/dy
\* estimate is 0
QuietFallbacks ==
    /\ probe.equation.type \notin {"explicit_y", "piecewise", "explicit_x", "implicit"} =>
          probe.result = Vec(pathFollowSpeed(JS), Zero(0))
    /\ (probe.equation.type = "implicit" /\ probe.points < 2) =>
          probe.result = Vec(pathFollowSpeed(JS), Zero(0))
    /\ (probe.equation.type = "explicit_x" /\ IsZero(probe.dxdy)) =>
          probe.result = Vec(pathFollowSpeed(JS), Zero(0))

\* C18 as stated: the three (speed, 0) fallbacks, and any exception raised
\* anywhere during calculatePathVelocity yields (0, 0).
C18_AnyExceptionYieldsZero ==
    probe.op = "calculatePathVelocity" =>
       IF probe.raised THEN probe.result = Vec(Zero(0), Zero(0)) ELSE QuietFallbacks

\* C18, amended: the three (speed, 0) fallbacks; an exception that reaches
\* the handler of calculatePathVelocity (thrown by evaluate in the
\* explicit_x arm or by getPoints) yields (0, 0); an exception thrown by
\* evaluate inside calculateDerivative / calculateDerivativeX is absorbed
\* there as a derivative of 0 and yields (speed, 0).
C18_Fallbacks ==
    probe.op = "calculatePathVelocity" =>
       IF probe.caught THEN probe.result = Vec(Zero(0), Zero(0))
       ELSE /\ QuietFallbacks
            /\ probe.raised => probe.result = Vec(pathFollowSpeed(JS), Zero(0))

C18_Witness ==
    /\ probe.op = "calculatePathVelocity"
    /\ probe.equation.type = "implicit"
    /\ probe.caught
    /\ probe.result = Vec(Zero(0), Zero(0))

\* the velocity of an on-path update on equation after the blend, the
\* gravity influence and friction, before the anti-stall test
SlowedFollow(js, before, equation) ==
    applyFriction(js, PhysicsNew(js),
                  Blended(js, PhysicsNew(js), before.velocity,
                          PathVelocityAfterSnap(js, before, equation),
                          BlendFactor(js, before.onPath)))

\* position += velocity
Advanced(js, position, velocity) ==
    Vec(js.FAdd[position.x, velocity.x], js.FAdd[position.y, velocity.y])

\* the marble after comes from the position start and the velocity slowed
\* (the velocity once the state-specific change and friction are applied)
\* by adding slowed to the position and only then applying the nudge
MovedThenNudged(js, after, start, slowed) ==
    /\ after.position = Advanced(js, start, slowed)
    /\ after.velocity = AfterNudge(js, slowed)

\* one update took before to after in the order of C19
StepsInOrder(js, before, after, eqs) ==
    IF after.onPath
    THEN MovedThenNudged(js, after,
             Snapped(js, before.position,
                     findClosestPointOnPath(js, before, eqs[after.currentEquation]),
                     pathSnapStrength(js)),
             SlowedFollow(js, before, eqs[after.currentEquation]))
    ELSE MovedThenNudged(js, after, before.position, SlowedFall(js, before.velocity))

\* C19: every update applies its steps in one order: the state-specific
\* velocity change (freefall: gravity on velocity.y, then both components
\* x0.995; on-path: the blend, then 0.3 * gravity on velocity.y), then
\* friction x0.98 on both components, then position += velocity, and only
\* then the anti-stall nudge, which is not part of the position written.
C19_StepOrder ==
    /\ probe.op = "update" => StepsInOrder(JS, probe.before, probe.after, <<>>)
    /\ probe.op = "tick" =>
          /\ StepsInOrder(JS, probe.a, probe.ab.first, probe.world.equations)
          /\ StepsInOrder(JS, probe.b, probe.ab.second.marble, probe.world.equations)

\* a freefall update in which the nudge fired
C19_Witness ==
    /\ probe.op = "update"
    /\ ~probe.after.onPath
    /\ probe.after.velocity.x = JS.FAdd[SlowedFall(JS, probe.before.velocity).x, JS.Lit[100]]
    /\ probe.after.position =
          Advanced(JS, probe.before.position, SlowedFall(JS, probe.before.velocity))

\* an on-path update from before to after blended with weight 0.5
BlendedByHalf(js, before, after, eqs) ==
    after.onPath =>
        after.velocity =
            AntiStall(js, applyFriction(js, PhysicsNew(js),
                Blended(js, PhysicsNew(js), before.velocity,
                        PathVelocityAfterSnap(js, before, eqs[after.currentEquation]),
                        js.Lit[5000])))

\* C20: after reset(x, y) the marble is as a freshly constructed marble at
\* (x, y): position (x, y), velocity (0.05, 0), onPath false,
\* currentEquation null, empty trail, timeOffPath 0, with radius (0.15),
\* pathThreshold (0.8) and maxTrailLength (25) as they were; and the first
\* on-path update after the reset, whether it is the next update or comes
\* after freefall updates, blends with weight 0.5.
C20_ResetRestores ==
    /\ lastOp = "reset" =>
          /\ \E start \in Starts(JS) :
                marble = [position |-> start, velocity |-> Vec(JS.Lit[500], Zero(0)),
                          radius |-> JS.Lit[1500], onPath |-> FALSE,
                          currentEquation |-> 0, trail |-> <<>>,
                          maxTrailLength |-> 25, pathThreshold |-> JS.Lit[8000],
                          timeOffPath |-> Zero(0)]
          /\ BlendedByHalf(JS, marble, MarbleUpdate(JS, marble, equations, stars).marble,
                           equations)
    /\ (lastOp = "update" /\ ~pre.onPath) => BlendedByHalf(JS, pre, marble, equations)

\* a reset of a marble whose next update is on a path
C20_Witness ==
    /\ lastOp = "reset"
    /\ marble.trail = <<>>
    /\ ~marble.onPath
    /\ MarbleUpdate(JS, marble, equations, stars).marble.onPath

\* the marble a fresh marble at position becomes by one update in a scene
UpdatedAt(js, position, eqs, sts) ==
    MarbleUpdate(js, MarbleNew(js, position.x, position.y), eqs, StarsList(sts)).marble

\* the marble follows the path chosen
Follows(m, path) == m.onPath /\ m.currentEquation = path.equation

\* C21: for a non-empty candidate list findBestPathTowardStars returns one
\* of the candidates, never null, whatever the scores (all equal and all
\* zero included; no computed score is NaN), and the update that built the
\* list ends with the marble on that path.
C21_CandidateSelected ==
    (probe.op = "findBestPathTowardStars" /\ Len(probe.candidatePaths) >= 1) =>
        /\ probe.result.tag = "path"
        /\ \E i \in 1 .. Len(probe.candidatePaths) :
              probe.result.path = probe.candidatePaths[i]
        /\ \A i \in 1 .. Len(probe.scores) : ~IsNaN(probe.scores[i])
        /\ Follows(UpdatedAt(JS, probe.position, probe.equations, probe.stars),
                   probe.result.path)

\* three candidates whose scores are all zero, and the first one followed
C21_Witness ==
    /\ probe.op = "findBestPathTowardStars"
    /\ Len(probe.candidatePaths) = 3
    /\ \A i \in 1 .. 3 : probe.scores[i] = Zero(0)
    /\ probe.result.tag = "path"
    /\ UpdatedAt(JS, probe.position, probe.equations, probe.stars).currentEquation
          = probe.candidatePaths[1].equation

\* C22: a marble started inside a finite bounds rectangle with a finite
\* velocity and no equations, updated again and again, reaches a state
\* where checkBounds returns false.
C22_LeavesBounds ==
    <>(~checkBounds(JS, marble, probe.bounds))
=============================================================================
